---- MODULE Spec2Model ----
(***************************************************************************)
(* A model of the localStorage data shim (db.collection / doc / orderBy /  *)
(* onSnapshot, FirebaseData.subscribe / load / save), of the cache manager *)
(* it calls, of ApiService.executeRequest, of the production sign-in path  *)
(* and of the realtime listener registries behind DataLoader.              *)
(*                                                                         *)
(* A JavaScript object is a function from its own property names to their *)
(* values; a property that is not in the DOMAIN reads as undefined.  A     *)
(* localStorage value is absent, a text JSON.parse rejects, or a JSON      *)
(* array of objects.                                                       *)
(***************************************************************************)
EXTENDS Integers, Sequences, FiniteSets, TLC

\* ------------------------------------------------------------------ bounds
\* Longest array a collection key is allowed to grow to in the model.
MaxRecords == 2
\* Longest array handed to FirebaseData.save as a whole collection.
MaxArr == 2
\* Most onSnapshot calls in one run.
MaxListeners == 1
\* Most FirebaseData.subscribe calls in one run.
MaxSubs == 2
\* Most steps of the clock in one run.
MaxTicks == 2
\* Most properties of an options literal handed to generateKey.
MaxPairs == 3
\* Most distinct keys set in a run that fills the memory tier.
MaxCacheKeys == 52
\* Most set and save calls issued in one run of unawaited calls.
MaxCalls == 3
\* Most fetch calls one executeRequest call is followed through.
MaxFetches == 5
\* Most failed attempts stored at a time, all identifiers together.
MaxAttempts == 6
\* Most steps of the clock in one run of the rate limiter.
MaxWaits == 3
\* Longest text, of the units TextChars, handed to validateInput.
MaxText == 3
\* Longest run of one repeated unit inside a password.
MaxPad == 7
\* Most steps of the clock in one run of the debounced functions.
MaxDebTicks == 4
\* Most auth-state changes waiting to be reported at a time.
MaxEvents == 2
\* Most requests queued while offline in one run.
MaxRequests == 2
\* Most processQueue calls in progress at a time.
MaxRuns == 2
\* Most successful executions of one queued request followed.
MaxSends == 2
\* Most authenticate calls awaiting their sign-in at once.
MaxFlights == 2
\* Most steps of the clock while lockouts are followed.
MaxLockWaits == 3
\* Most access-token lifetimes followed.
MaxZohoWaits == 2
\* Most milliseconds followed while backups are made.
MaxBakTicks == 11
\* Most DeploymentFirebase.initialize calls made by pages in one run.
MaxInitCalls == 1

\* ------------------------------------------------------------ value domains
Colls == {"orders"}
Ids == {"o1", "o2"}
Quantities == {3, 5}

\* The object {} .
EmptyObj == [f \in {} |-> 0]

\* The objects callers pass as data: any subset of the fields id, quantity.
Objects ==
    {[id |-> i, quantity |-> q] : i \in Ids, q \in Quantities}
        \cup {[id |-> i] : i \in Ids}
        \cup {[quantity |-> q] : q \in Quantities}
        \cup {EmptyObj}

\* The objects that hold a quantity and nothing else.
QuantityObjects == {[quantity |-> q] : q \in Quantities}

\* The objects that hold an id and nothing else.
IdObjects == {[id |-> i] : i \in Ids}

\* The objects written in the document-store runs: one quantity is enough
\* there, the ids and the presence of each field vary.
StoreObjects == {x \in Objects : "quantity" \in DOMAIN x => x.quantity = 3}

\* Arrays of length at most n over the set S.
ArraysUpTo(S, n) == UNION {[1..k -> S] : k \in 0..n}

\* x.id, with "undefined" for an object that has no id property.
IdOf(x) == IF "id" \in DOMAIN x THEN x.id ELSE "undefined"

\* Object.assign(target, source): own properties of source override target's.
ObjectAssign(target, source) ==
    [f \in (DOMAIN target) \cup (DOMAIN source) |->
        IF f \in DOMAIN source THEN source[f] ELSE target[f]]

\* ------------------------------------------------------------ localStorage
Absent == [kind |-> "absent", items |-> <<>>]
BadText == [kind |-> "text", items |-> <<>>]
ArrayValue(items) == [kind |-> "array", items |-> items]

VARIABLES
    storage,        \* localStorage: collection key -> stored value
    hasCache,       \* whether window.CacheManager is defined on the page
    memoryCache,    \* CacheManager.memoryCache: a Map, as its entries in insertion order
    cacheStore,     \* the localStorage entries under the cache prefix
    now,            \* Date.now()
    listeners,      \* one entry per onSnapshot(next) call: how often next ran
    subs,           \* one entry per FirebaseData.subscribe call: how often opts.callback ran
    microtasks,     \* promise reactions queued by subscribe and not yet run
    written,        \* per collection: the ids of the single-record writes made so far
    delivered,      \* per direction: the last orderBy result on the data now stored
    last,           \* the last completed call: its arguments and what it returned
    cacheLog,       \* the direct CacheManager.set calls not yet followed by another
                    \* set or an invalidation of their key: key, time, ttl, data
    api,            \* ApiService.executeRequest: where the call in progress stands
    auth,           \* ProductionAuthManager: its fields and the last authenticate call
    rt,             \* the snapshot listeners of the hosted store and their registries
    sec,            \* localStorage 'loginAttempts_<id>' per identifier, and the
                    \* last SecurityManager call
    val,            \* the last DataValidator call: its argument and its outcome
    deb,            \* PerformanceManager.debounceTimers, the wrapped functions'
                    \* calls and runs
    sess,           \* the hosted auth service's user and localStorage 'userSession'
    queue,          \* ApiService.requestQueue, localStorage 'requestQueue' and
                    \* the processQueue runs in progress
    am,             \* AuthManager: the 'userSession' item as stored and the last
                    \* isAuthenticated call
    dep,            \* deployment-firebase: its flags, its attempt counter, the
                    \* initialize calls in progress and the retry timers
    zoho,           \* ZohoBooksAPI: its token fields and the stored copies
    bak             \* BackupManager: the 'backup_' entries of localStorage

vars == <<storage, hasCache, am, dep, zoho, bak, memoryCache, cacheStore, now, listeners, subs,
          microtasks, written, delivered, last, cacheLog, api, auth, rt,
          sec, val, deb, sess, queue>>

\* ------------------------------------------------- collection read and write
\* ensureCollection(name): seeds '[]' when getItem(name) is falsy (absent).
EnsureCollection(st, name) ==
    IF st[name].kind = "absent" THEN [st EXCEPT ![name] = ArrayValue(<<>>)] ELSE st

\* readCollection without its try/catch: the parse error leaves the call.
ReadCollectionUncaught(st, name) ==
    LET v == EnsureCollection(st, name)[name]
    IN  IF v.kind = "array"
        THEN [threw |-> FALSE, list |-> v.items, warned |-> FALSE]
        ELSE [threw |-> TRUE, list |-> <<>>, warned |-> FALSE]

\* readCollection(name), the value returned: JSON.parse in a try/catch that
\* turns a parse error into the empty list.  The catch block is
\* `return [];` alone: nothing is handed to console or to the error handler
\* (warned = FALSE).
ReadCollection(st, name) ==
    LET v == EnsureCollection(st, name)[name]
    IN  IF v.kind = "array"
        THEN [threw |-> FALSE, list |-> v.items, warned |-> FALSE]
        ELSE [threw |-> FALSE, list |-> <<>>, warned |-> FALSE]

\* writeCollection(name, items)
WriteCollection(st, name, items) == [st EXCEPT ![name] = ArrayValue(items)]

\* list.findIndex(x => x && x.id === id): the first match, 0 for -1.
FindIndex(list, id) ==
    IF \E i \in 1..Len(list) : IdOf(list[i]) = id
    THEN CHOOSE i \in 1..Len(list) :
            /\ IdOf(list[i]) = id
            /\ \A j \in 1..(i - 1) : IdOf(list[j]) # id
    ELSE 0

\* ------------------------------------------------------------ cache manager
\* CacheManager.maxMemorySize
maxMemorySize == 50
\* The default TTL setCachedData passes: options.cacheTTL || 300000
defaultCacheTTL == 300000

\* The option names in the order Array.prototype.sort() puts them (the order
\* of their UTF-16 code units).
OptionOrder ==
    <<"a", "b", "cacheTTL", "callback", "forceRefresh", "limit", "orderBy",
      "orderDir", "path">>
NumericOptions == {"a", "b", "cacheTTL", "limit"}

\* The order in which the pages write the properties of an options literal.
LiteralOrder ==
    <<"path", "orderBy", "orderDir", "limit", "cacheTTL", "callback", "a", "b",
      "forceRefresh">>

\* Object.keys(options) of an options record: its own property names in
\* insertion order.
ObjectKeys(options) == SelectSeq(LiteralOrder, LAMBDA k : k \in DOMAIN options)

\* An object literal as written: its (name, value) pairs in insertion order.
\* Object.keys of it, and the object it denotes.
KeysOfLiteral(pairs) == [i \in 1..Len(pairs) |-> pairs[i].k]
ObjectOfLiteral(pairs) ==
    [n \in {pairs[i].k : i \in 1..Len(pairs)} |->
        (CHOOSE e \in {pairs[i] : i \in 1..Len(pairs)} : e.k = n).v]

\* The place of a name in the sort order.
Rank(n) == CHOOSE i \in 1..Len(OptionOrder) : OptionOrder[i] = n

\* Object.keys(options) used as it comes, without the sort.
KeepOrder(keys) == keys

RECURSIVE InsertSorted(_, _)
InsertSorted(n, sorted) ==
    IF sorted = <<>> THEN <<n>>
    ELSE IF Rank(n) <= Rank(Head(sorted)) THEN <<n>> \o sorted
    ELSE <<Head(sorted)>> \o InsertSorted(n, Tail(sorted))

\* keys.sort(): the names in ascending order.  Property names are distinct
\* and the default order is total, so the result does not depend on the
\* engine's algorithm.
RECURSIVE SortNames(_)
SortNames(keys) ==
    IF keys = <<>> THEN <<>>
    ELSE InsertSorted(Head(keys), SortNames(Tail(keys)))

\* `${options[key]}`
OptionText(options, k) ==
    IF k \in NumericOptions THEN ToString(options[k])
    ELSE IF k = "forceRefresh" THEN (IF options[k] THEN "true" ELSE "false")
    ELSE options[k]

RECURSIVE JoinParams(_, _)
JoinParams(options, keys) ==
    IF keys = <<>> THEN <<>>
    ELSE <<Head(keys), "=", OptionText(options, Head(keys))>>
            \o (IF Tail(keys) = <<>> THEN <<>> ELSE <<"&">>)
            \o JoinParams(options, Tail(keys))

\* The body of generateKey on an object whose Object.keys is ownKeys: the key
\* as the sequence of the pieces of text it is concatenated from.
GenerateKeyFrom(collection, options, ownKeys) ==
    LET keys == SortNames(ownKeys)
        params == JoinParams(options, keys)
    IN  <<collection>> \o (IF params = <<>> THEN <<>> ELSE <<"?">> \o params)

\* CacheManager.generateKey(collection, options)
GenerateKey(collection, options) ==
    GenerateKeyFrom(collection, options, ObjectKeys(options))

\* CacheManager.generateKey(collection, { ...pairs })
GenerateKeyOfLiteral(collection, pairs) ==
    GenerateKeyFrom(collection, ObjectOfLiteral(pairs), KeysOfLiteral(pairs))

\* A collection name as the pieces of text it is written with: one name of
\* the cache runs begins with another.
Chunks(name) == IF name = "ordersArchive" THEN <<"orders", "Archive">> ELSE <<name>>

\* The text of a key: the collection name, then the parameters.
KeyText(key) == Chunks(Head(key)) \o Tail(key)

IsPrefix(p, t) == Len(p) <= Len(t) /\ SubSeq(t, 1, Len(p)) = p

\* key.startsWith(collection)
StartsWith(key, collection) ==
    Len(key) >= 1 /\ IsPrefix(Chunks(collection), KeyText(key))

\* isValid with the comparison made inclusive: an entry lives one instant
\* longer than its ttl.
IsValidInclusive(item) == now - item.timestamp <= item.ttl

\* CacheManager.isValid(item)
IsValid(item) == now - item.timestamp < item.ttl

\* [...memoryCache.keys()]
MemKeys(mem) == [i \in 1..Len(mem) |-> mem[i].key]
MemHas(mem, key) == \E i \in 1..Len(mem) : mem[i].key = key
MemIndex(mem, key) == CHOOSE i \in 1..Len(mem) : mem[i].key = key
MemDelete(mem, key) == SelectSeq(mem, LAMBDA e : e.key # key)

\* setMemoryCache evicting the newest entry of a full tier, not the oldest.
SetMemoryCacheDropNewest(mem, key, item) ==
    LET m1 == IF Len(mem) >= maxMemorySize THEN SubSeq(mem, 1, Len(mem) - 1) ELSE mem
    IN  IF MemHas(m1, key)
        THEN [m1 EXCEPT ![MemIndex(m1, key)] = [key |-> key, item |-> item]]
        ELSE Append(m1, [key |-> key, item |-> item])

\* CacheManager.setMemoryCache(key, item): the first key of the Map is deleted
\* when the Map is full; Map.set keeps the place of a key it already holds.
SetMemoryCache(mem, key, item) ==
    LET m1 == IF Len(mem) >= maxMemorySize THEN Tail(mem) ELSE mem
    IN  IF MemHas(m1, key)
        THEN [m1 EXCEPT ![MemIndex(m1, key)] = [key |-> key, item |-> item]]
        ELSE Append(m1, [key |-> key, item |-> item])

StoreHas(cs, key) == \E e \in cs : e.key = key
StoreItem(cs, key) == (CHOOSE e \in cs : e.key = key).item
StoreRemove(cs, key) == {e \in cs : e.key # key}

\* CacheManager.get(key): the new memory tier, the new durable tier and the
\* value returned (hit = FALSE for null).
CacheGet(mem, cs, key) ==
    LET memValid == MemHas(mem, key) /\ IsValid(mem[MemIndex(mem, key)].item)
        m1 == IF MemHas(mem, key) /\ ~memValid THEN MemDelete(mem, key) ELSE mem
    IN  IF memValid
        THEN [mem |-> mem, cs |-> cs, hit |-> TRUE,
              data |-> mem[MemIndex(mem, key)].item.data]
        ELSE IF StoreHas(cs, key)
        THEN IF IsValid(StoreItem(cs, key))
             THEN [mem |-> SetMemoryCache(m1, key, StoreItem(cs, key)), cs |-> cs,
                   hit |-> TRUE, data |-> StoreItem(cs, key).data]
             ELSE [mem |-> m1, cs |-> StoreRemove(cs, key), hit |-> FALSE, data |-> <<>>]
        ELSE [mem |-> m1, cs |-> cs, hit |-> FALSE, data |-> <<>>]

\* CacheManager.set(key, data, ttl)
CacheSet(mem, cs, key, data, ttl) ==
    LET item == [data |-> data, timestamp |-> now, ttl |-> ttl]
    IN  [mem |-> SetMemoryCache(mem, key, item),
         cs |-> StoreRemove(cs, key) \cup {[key |-> key, item |-> item]}]

\* CacheManager.invalidateCollection(collection)
InvalidateCollection(mem, cs, collection) ==
    [mem |-> SelectSeq(mem, LAMBDA e : ~StartsWith(e.key, collection)),
     cs |-> {e \in cs : ~StartsWith(e.key, collection)}]

\* invalidateCache(collection) of the shim: a no-op without window.CacheManager.
InvalidateCache(mem, cs, collection) ==
    IF hasCache THEN InvalidateCollection(mem, cs, collection)
    ELSE [mem |-> mem, cs |-> cs]

\* ------------------------------------------------------------ document calls
NoCall == [op |-> "none", name |-> "", id |-> "", data |-> EmptyObj,
           merge |-> FALSE, threw |-> FALSE, exists |-> FALSE,
           found |-> EmptyObj, prev |-> <<>>, before |-> 0,
           field |-> "", dir |-> "", limit |-> 0, src |-> <<>>, docs |-> <<>>,
           key |-> <<>>, hit |-> FALSE, at |-> 0, mem |-> <<>>, cs |-> {},
           corrupt |-> FALSE, warned |-> FALSE]

\* What doc(id).get() resolves to on the storage st: list.find(x => x &&
\* x.id === id), exists = !!found, data() = found || {}.
Lookup(st, name, id) ==
    LET rd == ReadCollection(st, name)
        idx == FindIndex(rd.list, id)
    IN  [threw |-> rd.threw,
         exists |-> (~rd.threw /\ idx > 0),
         found |-> IF ~rd.threw /\ idx > 0 THEN rd.list[idx] ELSE EmptyObj]

\* No orderBy result yet on the data now stored.
Dirs == {"asc", "desc"}
NoResult == [set |-> FALSE, name |-> "", field |-> "", src |-> <<>>, docs |-> <<>>]
NoResults == [d \in Dirs |-> NoResult]

\* The results kept are those of one collection and one sort field: a query
\* on another collection or field starts afresh.
NoteResult(name, field, dir, src, docs) ==
    [d \in Dirs |->
        IF d = dir
        THEN [set |-> TRUE, name |-> name, field |-> field, src |-> src, docs |-> docs]
        ELSE IF delivered[d].set /\ delivered[d].name = name /\ delivered[d].field = field
        THEN delivered[d]
        ELSE NoResult]

\* The history of single-record writes: a write of a whole array, or a write
\* the code did not complete, ends the run of single-record writes.
NoteWrite(name, id) ==
    written' = [written EXCEPT ![name].ids = @ \cup {id}]
EndWrites(name) ==
    written' = [written EXCEPT ![name].single = FALSE]

\* db.collection(name).doc(id).get()
DocGet(name, id) ==
    LET st1 == EnsureCollection(storage, name)
        r == Lookup(st1, name, id)
    IN  /\ storage' = st1
        /\ last' = [NoCall EXCEPT !.op = "get", !.name = name, !.id = id,
                        !.threw = r.threw, !.exists = r.exists, !.found = r.found,
                        !.corrupt = (storage[name].kind = "text"),
                        !.warned = ReadCollection(st1, name).warned]
        /\ UNCHANGED <<hasCache, am, dep, zoho, bak, cacheLog, api, auth, rt, sec, val, deb, sess, queue, memoryCache, cacheStore, now, listeners, subs,
                       microtasks, written, delivered>>

\* A set that emits to the collection's snapshot listeners again, as a live
\* listener would.
DocSetEmitting(name, id, data, merge) ==
    LET st1 == EnsureCollection(storage, name)
        rd == ReadCollection(st1, name)
        idx == FindIndex(rd.list, id)
        rec == ObjectAssign([id |-> id], data)
        list2 == IF idx > 0 THEN [rd.list EXCEPT ![idx] = rec]
                 ELSE Append(rd.list, rec)
    IN  /\ Len(list2) <= MaxRecords
        /\ storage' = WriteCollection(st1, name, list2)
        /\ last' = [NoCall EXCEPT !.op = "set", !.name = name, !.id = id,
                        !.data = data, !.merge = merge,
                        !.prev = IF idx > 0 THEN <<rd.list[idx]>> ELSE <<>>,
                        !.before = Len(rd.list)]
        /\ NoteWrite(name, id)
        /\ delivered' = NoResults
        /\ listeners' = [i \in 1..Len(listeners) |->
                IF listeners[i].name = name
                THEN [listeners[i] EXCEPT !.calls = @ + 1]
                ELSE listeners[i]]
        /\ UNCHANGED <<hasCache, am, dep, zoho, bak, cacheLog, api, auth, rt, sec, val, deb, sess, queue, memoryCache, cacheStore, now, subs, microtasks>>

\* db.collection(name).doc(id).set(data, opts): opts is never read.
DocSet(name, id, data, merge) ==
    LET st1 == EnsureCollection(storage, name)
        rd == ReadCollection(st1, name)
        idx == FindIndex(rd.list, id)
        rec == ObjectAssign([id |-> id], data)
        list2 == IF idx > 0 THEN [rd.list EXCEPT ![idx] = rec]
                 ELSE Append(rd.list, rec)
    IN  /\ Len(list2) <= MaxRecords
        /\ storage' = IF rd.threw THEN st1 ELSE WriteCollection(st1, name, list2)
        /\ last' = [NoCall EXCEPT !.op = "set", !.name = name, !.id = id,
                        !.data = data, !.merge = merge, !.threw = rd.threw,
                        !.prev = IF idx > 0 THEN <<rd.list[idx]>> ELSE <<>>,
                        !.before = Len(rd.list),
                        !.corrupt = (storage[name].kind = "text"),
                        !.warned = rd.warned]
        /\ IF rd.threw THEN EndWrites(name) ELSE NoteWrite(name, id)
        /\ delivered' = NoResults
        /\ UNCHANGED <<hasCache, am, dep, zoho, bak, cacheLog, api, auth, rt, sec, val, deb, sess, queue, memoryCache, cacheStore, now, listeners, subs,
                       microtasks>>

\* FirebaseData.save(key, data) with data an array: the whole collection is
\* overwritten, then the collection's cache entries are invalidated.
SaveArray(key, arr) ==
    LET inv == InvalidateCache(memoryCache, cacheStore, key)
    IN  /\ storage' = WriteCollection(storage, key, arr)
        /\ memoryCache' = inv.mem
        /\ cacheStore' = inv.cs
        /\ last' = [NoCall EXCEPT !.op = "saveArray", !.name = key,
                        !.before = Len(storage[key].items), !.src = arr,
                        !.corrupt = (storage[key].kind = "text")]
        /\ EndWrites(key)
        /\ delivered' = NoResults
        /\ UNCHANGED <<hasCache, am, dep, zoho, bak, cacheLog, api, auth, rt, sec, val, deb, sess, queue, now, listeners, subs, microtasks>>

\* FirebaseData.save(key, data) with data a single record.
SaveRecord(key, data) ==
    LET st1 == EnsureCollection(storage, key)
        rd == ReadCollection(st1, key)
        idx == FindIndex(rd.list, IdOf(data))
        list2 == IF idx > 0 THEN [rd.list EXCEPT ![idx] = data]
                 ELSE Append(rd.list, data)
        inv == InvalidateCache(memoryCache, cacheStore, key)
    IN  /\ Len(list2) <= MaxRecords
        /\ storage' = IF rd.threw THEN st1 ELSE WriteCollection(st1, key, list2)
        /\ memoryCache' = IF rd.threw THEN memoryCache ELSE inv.mem
        /\ cacheStore' = IF rd.threw THEN cacheStore ELSE inv.cs
        /\ last' = [NoCall EXCEPT !.op = "save", !.name = key, !.id = IdOf(data),
                        !.data = data, !.threw = rd.threw,
                        !.prev = IF idx > 0 THEN <<rd.list[idx]>> ELSE <<>>,
                        !.before = Len(rd.list),
                        !.corrupt = (storage[key].kind = "text"),
                        !.warned = rd.warned]
        /\ IF rd.threw THEN EndWrites(key) ELSE NoteWrite(key, IdOf(data))
        /\ delivered' = NoResults
        /\ UNCHANGED <<hasCache, am, dep, zoho, bak, cacheLog, api, auth, rt, sec, val, deb, sess, queue, now, listeners, subs, microtasks>>

\* FirebaseData.save(key, data): Array.isArray(data) picks the branch.
FirebaseSave(key, isArray, data, arr) ==
    IF isArray THEN SaveArray(key, arr) ELSE SaveRecord(key, data)

\* ------------------------------------------------------------------ queries
\* The field orderBy is called with in the query runs.  (FirebaseData.subscribe
\* sorts by 'createdAt' by default, a property no modelled object has: it
\* reads as undefined in every record.)
SortFields == {"quantity"}

\* av > bv on the field's raw values: false when either is undefined.
GreaterThan(a, b, field) ==
    /\ field \in DOMAIN a
    /\ field \in DOMAIN b
    /\ a[field] > b[field]

\* The comparator with the direction test lost: always ascending.
CompareAscending(a, b, field, dir) ==
    IF GreaterThan(a, b, field) THEN 1 ELSE -1

\* The comparator handed to Array.prototype.sort: it never returns 0.
Compare(a, b, field, dir) ==
    IF dir = "desc"
    THEN (IF GreaterThan(b, a, field) THEN 1 ELSE -1)
    ELSE (IF GreaterThan(a, b, field) THEN 1 ELSE -1)

IndexPermutations(n) ==
    {p \in [1..n -> 1..n] : \A i, j \in 1..n : i # j => p[i] # p[j]}

\* list.slice().sort(comparator).  The comparator answers -1 both ways for a
\* pair of equal values, so it is not a consistent comparator and the order
\* of such a pair is the engine's choice: every arrangement of the list that
\* puts no pair against the comparator's answer 1 is a possible result.
SortOutcomes(list, field, dir) ==
    LET n == Len(list)
    IN  {[i \in 1..n |-> list[p[i]]] : p \in
            {q \in IndexPermutations(n) :
                \A i, j \in 1..n :
                    i < j => Compare(list[q[i]], list[q[j]], field, dir) # 1}}

\* limit(n): function(){ return api; } -- the query is returned as it is.
ApplyLimit(sorted, n) == sorted

\* orderBy(field, dir).limit(n).onSnapshot(next): next is called once, before
\* the unsubscribe function is returned.  limit = 0 stands for no limit call.
OnSnapshot(name, field, dir, limit) ==
    LET st1 == EnsureCollection(storage, name)
        rd == ReadCollection(st1, name)
    IN  /\ Len(listeners) < MaxListeners
        /\ \E sorted \in SortOutcomes(rd.list, field, dir) :
              LET docs == IF limit > 0 THEN ApplyLimit(sorted, limit) ELSE sorted
              IN  /\ last' = [NoCall EXCEPT !.op = "onSnapshot", !.name = name,
                                  !.field = field, !.dir = dir, !.limit = limit,
                                  !.src = rd.list, !.docs = docs]
                  /\ delivered' = NoteResult(name, field, dir, rd.list, docs)
        /\ storage' = st1
        /\ listeners' = Append(listeners, [name |-> name, calls |-> 1])
        /\ UNCHANGED <<hasCache, am, dep, zoho, bak, cacheLog, api, auth, rt, sec, val, deb, sess, queue, memoryCache, cacheStore, now, subs, microtasks,
                       written>>

\* orderBy(field, dir).limit(n).get()
OrderByGet(name, field, dir, limit) ==
    LET st1 == EnsureCollection(storage, name)
        rd == ReadCollection(st1, name)
    IN  /\ \E sorted \in SortOutcomes(rd.list, field, dir) :
              LET docs == IF limit > 0 THEN ApplyLimit(sorted, limit) ELSE sorted
              IN  /\ last' = [NoCall EXCEPT !.op = "orderByGet", !.name = name,
                                  !.field = field, !.dir = dir, !.limit = limit,
                                  !.src = rd.list, !.docs = docs]
                  /\ delivered' = NoteResult(name, field, dir, rd.list, docs)
        /\ storage' = st1
        /\ UNCHANGED <<hasCache, am, dep, zoho, bak, cacheLog, api, auth, rt, sec, val, deb, sess, queue, memoryCache, cacheStore, now, listeners, subs,
                       microtasks, written>>

\* --------------------------------------------------- FirebaseData.subscribe
\* opts.orderBy || 'createdAt', opts.orderDir || 'desc', options.cacheTTL || 300000
OrderByOf(opts) == IF "orderBy" \in DOMAIN opts THEN opts.orderBy ELSE "createdAt"
OrderDirOf(opts) == IF "orderDir" \in DOMAIN opts THEN opts.orderDir ELSE "desc"
CacheTTLOf(opts) == IF "cacheTTL" \in DOMAIN opts THEN opts.cacheTTL ELSE defaultCacheTTL

\* snap.docs.map(d => Object.assign({ id: d.id }, d.data()))
SnapshotData(docs) ==
    [i \in 1..Len(docs) |-> ObjectAssign([id |-> IdOf(docs[i])], docs[i])]

\* FirebaseData.subscribe(opts), up to its return.  getCachedData runs
\* CacheManager.get (an async function without an await: its body runs
\* within the call) and queues the .then reaction; without a cache manager
\* it returns null and .then throws.  Then onSnapshot emits the stored data,
\* which is cached and handed to opts.callback and opts.onChange.
Subscribe(opts) ==
    LET key == opts.path
        cacheKey == GenerateKey(key, opts)
        cg == CacheGet(memoryCache, cacheStore, cacheKey)
        st1 == EnsureCollection(storage, key)
        rd == ReadCollection(st1, key)
    IN  /\ Len(subs) < MaxSubs
        /\ IF ~hasCache
           THEN /\ subs' = Append(subs, [calls |-> 0, threw |-> TRUE, opts |-> opts,
                                          src |-> <<>>, lastData |-> <<>>])
                /\ last' = [NoCall EXCEPT !.op = "subscribe", !.name = key,
                                !.threw = TRUE]
                /\ UNCHANGED <<storage, memoryCache, cacheStore, listeners,
                               microtasks, delivered>>
           ELSE /\ \E sorted \in SortOutcomes(rd.list, OrderByOf(opts), OrderDirOf(opts)) :
                     LET docs == IF "limit" \in DOMAIN opts
                                 THEN ApplyLimit(sorted, opts.limit) ELSE sorted
                         data == SnapshotData(docs)
                         cset == CacheSet(cg.mem, cg.cs, cacheKey, data, CacheTTLOf(opts))
                     IN  /\ memoryCache' = cset.mem
                         /\ cacheStore' = cset.cs
                         /\ last' = [NoCall EXCEPT !.op = "subscribe", !.name = key,
                                         !.field = OrderByOf(opts), !.dir = OrderDirOf(opts),
                                         !.src = rd.list, !.docs = data]
                         /\ subs' = Append(subs, [calls |-> 1, threw |-> FALSE,
                                                  opts |-> opts, src |-> rd.list,
                                                  lastData |-> data])
                /\ storage' = st1
                /\ listeners' = Append(listeners, [name |-> key, calls |-> 1])
                /\ microtasks' = Append(microtasks,
                        [sub |-> Len(subs) + 1, hit |-> cg.hit, data |-> cg.data])
                /\ delivered' = NoResults
        /\ UNCHANGED <<hasCache, am, dep, zoho, bak, cacheLog, api, auth, rt, sec, val, deb, sess, queue, now, written>>

\* The reaction subscribe queued on getCachedData's promise: a cached list
\* that is not empty is handed to opts.callback and opts.onChange.
RunMicrotask ==
    /\ microtasks # <<>>
    /\ LET m == Head(microtasks)
       IN  subs' = IF m.hit /\ Len(m.data) > 0
                   THEN [subs EXCEPT ![m.sub].calls = @ + 1,
                                     ![m.sub].lastData = m.data]
                   ELSE subs
    /\ microtasks' = Tail(microtasks)
    /\ last' = [NoCall EXCEPT !.op = "then"]
    /\ UNCHANGED <<storage, hasCache, am, dep, zoho, bak, cacheLog, api, auth, rt, sec, val, deb, sess, queue, memoryCache, cacheStore, now, listeners,
                   written, delivered>>

\* FirebaseData.load(key, options).  getCachedData reads the cache within
\* the call (null without a cache manager); after the await a cached value,
\* the empty list included, is returned unless options.forceRefresh is set;
\* otherwise the collection is read and cached.
ForceRefreshOf(options) ==
    IF "forceRefresh" \in DOMAIN options THEN options.forceRefresh ELSE FALSE

FirebaseLoad(key, options) ==
    LET cacheKey == GenerateKey(key, options)
        cg == IF hasCache THEN CacheGet(memoryCache, cacheStore, cacheKey)
              ELSE [mem |-> memoryCache, cs |-> cacheStore, hit |-> FALSE, data |-> <<>>]
        st1 == EnsureCollection(storage, key)
        rd == ReadCollection(st1, key)
        cset == IF hasCache
                THEN CacheSet(cg.mem, cg.cs, cacheKey, rd.list, CacheTTLOf(options))
                ELSE [mem |-> cg.mem, cs |-> cg.cs]
    IN  /\ IF cg.hit /\ ~ForceRefreshOf(options)
           THEN /\ memoryCache' = cg.mem
                /\ cacheStore' = cg.cs
                /\ storage' = storage
                /\ last' = [NoCall EXCEPT !.op = "load", !.name = key,
                                !.docs = cg.data]
           ELSE /\ memoryCache' = cset.mem
                /\ cacheStore' = cset.cs
                /\ storage' = st1
                /\ last' = [NoCall EXCEPT !.op = "load", !.name = key,
                                !.src = rd.list, !.docs = rd.list]
        /\ UNCHANGED <<hasCache, am, dep, zoho, bak, cacheLog, api, auth, rt, sec, val, deb, sess, queue, now, listeners, subs,
                       microtasks, written, delivered>>

\* Time passes: half a default TTL at a time.
Tick ==
    /\ now < MaxTicks * (defaultCacheTTL \div 2)
    /\ now' = now + (defaultCacheTTL \div 2)
    /\ UNCHANGED <<storage, hasCache, am, dep, zoho, bak, cacheLog, api, auth, rt, sec, val, deb, sess, queue, memoryCache, cacheStore, listeners, subs,
                   microtasks, written, delivered, last>>

\* ------------------------------------------------ calls issued unawaited
\* The list doc(id).set(data) writes back, from the list it read.
SetResult(list, id, data) ==
    LET idx == FindIndex(list, id)
        rec == ObjectAssign([id |-> id], data)
    IN  IF idx > 0 THEN [list EXCEPT ![idx] = rec] ELSE Append(list, rec)

\* The list FirebaseData.save(key, data) writes back for a single record.
SaveResult(list, data) ==
    LET idx == FindIndex(list, IdOf(data))
    IN  IF idx > 0 THEN [list EXCEPT ![idx] = data] ELSE Append(list, data)

\* What a call writes, from the list it read.
CallResult(list, c) ==
    IF c.op = "set" THEN SetResult(list, c.id, c.data)
    ELSE IF c.op = "save" THEN SaveResult(list, c.data)
    ELSE c.arr

\* The bodies as they would run with an await between readCollection and
\* writeCollection (an asynchronous store).
BodyAwaitsAfterRead(op) == op \in {"set", "save"}

\* Whether the body of the async function suspends between its read and its
\* write.  set and save hold no await: an async function runs to its first
\* await within the call, so the whole body runs when the call is issued.
BodyAwaits(op) == FALSE

\* A call of set or save whose promise the caller does not await: the body
\* runs up to its first await, the rest and the caller's reaction are left
\* to the microtask queue.
IssueCall(name, c) ==
    LET st1 == EnsureCollection(storage, name)
        rd == ReadCollection(st1, name)
        inv == InvalidateCache(memoryCache, cacheStore, name)
        writes == ~BodyAwaits(c.op)
    IN  /\ Len(last.src) < MaxCalls
        /\ storage' = IF writes
                      THEN WriteCollection(st1, name, CallResult(rd.list, c))
                      ELSE st1
        /\ memoryCache' = IF writes /\ c.op # "set" THEN inv.mem ELSE memoryCache
        /\ cacheStore' = IF writes /\ c.op # "set" THEN inv.cs ELSE cacheStore
        /\ microtasks' = Append(microtasks,
                [name |-> name, call |-> c, snap |-> rd.list, wrote |-> writes])
        /\ last' = [NoCall EXCEPT !.op = "issue", !.name = name,
                        !.src = Append(last.src, c)]
        /\ UNCHANGED <<hasCache, am, dep, zoho, bak, cacheLog, api, auth, rt, sec, val, deb, sess, queue, now, listeners, subs, written, delivered>>

\* The next microtask: the rest of the oldest call's body, if any, and the
\* settling of its promise.
SettleCall ==
    /\ microtasks # <<>>
    /\ LET m == Head(microtasks)
           inv == InvalidateCache(memoryCache, cacheStore, m.name)
       IN  /\ storage' = IF m.wrote THEN storage
                         ELSE WriteCollection(storage, m.name, CallResult(m.snap, m.call))
           /\ memoryCache' = IF ~m.wrote /\ m.call.op # "set" THEN inv.mem ELSE memoryCache
           /\ cacheStore' = IF ~m.wrote /\ m.call.op # "set" THEN inv.cs ELSE cacheStore
    /\ microtasks' = Tail(microtasks)
    /\ last' = [last EXCEPT !.op = "settle"]
    /\ UNCHANGED <<hasCache, am, dep, zoho, bak, cacheLog, api, auth, rt, sec, val, deb, sess, queue, now, listeners, subs, written, delivered>>

\* ------------------------------------------------- cache manager, called
\* CacheManager.generateKey(collection, { ...pairs })
GenerateKeyCall(collection, pairs) ==
    /\ last' = [NoCall EXCEPT !.op = "generateKey", !.name = collection,
                    !.src = pairs, !.key = GenerateKeyOfLiteral(collection, pairs)]
    /\ UNCHANGED <<storage, hasCache, am, dep, zoho, bak, cacheLog, api, auth, rt, sec, val, deb, sess, queue, memoryCache, cacheStore, now,
                   listeners, subs, microtasks, written, delivered>>

\* CacheManager.set(key, data, ttl)
CacheSetCall(key, data, ttl) ==
    LET r == CacheSet(memoryCache, cacheStore, key, data, ttl)
    IN  /\ memoryCache' = r.mem
        /\ cacheStore' = r.cs
        /\ cacheLog' = {e \in cacheLog : e.key # key}
                          \cup {[key |-> key, t |-> now, ttl |-> ttl, data |-> data]}
        /\ last' = [NoCall EXCEPT !.op = "cacheSet", !.key = key, !.docs = data,
                        !.at = now, !.src = MemKeys(memoryCache)]
        /\ UNCHANGED <<storage, hasCache, am, dep, zoho, bak, api, auth, rt, sec, val, deb, sess, queue, now, listeners, subs, microtasks,
                       written, delivered>>

\* CacheManager.get(key)
CacheGetCall(key) ==
    LET r == CacheGet(memoryCache, cacheStore, key)
    IN  /\ memoryCache' = r.mem
        /\ cacheStore' = r.cs
        /\ last' = [NoCall EXCEPT !.op = "cacheGet", !.key = key, !.hit = r.hit,
                        !.docs = r.data, !.at = now,
                        !.src = MemKeys(memoryCache)]
        /\ UNCHANGED <<storage, hasCache, am, dep, zoho, bak, cacheLog, api, auth, rt, sec, val, deb, sess, queue, now, listeners, subs,
                       microtasks, written, delivered>>

\* CacheManager.invalidate(key)
CacheInvalidateCall(key) ==
    /\ memoryCache' = MemDelete(memoryCache, key)
    /\ cacheStore' = StoreRemove(cacheStore, key)
    /\ cacheLog' = {e \in cacheLog : e.key # key}
    /\ last' = [NoCall EXCEPT !.op = "invalidate", !.key = key, !.at = now]
    /\ UNCHANGED <<storage, hasCache, am, dep, zoho, bak, api, auth, rt, sec, val, deb, sess, queue, now, listeners, subs, microtasks, written,
                   delivered>>

\* CacheManager.invalidateCollection(collection)
InvalidateCollectionCall(collection) ==
    LET r == InvalidateCollection(memoryCache, cacheStore, collection)
    IN  /\ memoryCache' = r.mem
        /\ cacheStore' = r.cs
        /\ cacheLog' = {e \in cacheLog : ~StartsWith(e.key, collection)}
        /\ last' = [NoCall EXCEPT !.op = "invalidateCollection", !.name = collection,
                        !.at = now, !.mem = memoryCache, !.cs = cacheStore]
        /\ UNCHANGED <<storage, hasCache, am, dep, zoho, bak, api, auth, rt, sec, val, deb, sess, queue, now, listeners, subs, microtasks,
                       written, delivered>>

\* A key of localStorage: a collection's key is its name; the key of a cache
\* entry is this.storagePrefix ('jersey_cache_') followed by the cache key.
CollectionKey(name) == [prefixed |-> FALSE, name |-> name]
EntryKey(key) == [prefixed |-> TRUE, key |-> key]

\* A sweep that looks at every key of localStorage.
AnyKey(k) == TRUE

\* key.startsWith(this.storagePrefix)
UnderPrefix(k) == k.prefixed

\* What a key under the prefix can hold that CacheManager.set did not write:
\* a text JSON.parse rejects, the JSON null, or a JSON object without
\* timestamp and ttl.
CorruptItems == {[bad |-> "text"], [bad |-> "null"], [bad |-> "object"]}

\* The sweep's test of a stored value: JSON.parse throws on a rejected text
\* and isValid throws on null (both caught: the entry is removed); for an
\* object without timestamp the comparison NaN < undefined is false.
SweepKeeps(item) == "bad" \notin DOMAIN item /\ IsValid(item)

\* The same test on a collection's value, which is a rejected text or an
\* array: the array has no timestamp.
SweepKeepsCollection(value) == FALSE

\* CacheManager.cleanExpiredEntries(), run by init() and by the interval it
\* sets up: of the keys of localStorage under the prefix, those whose value
\* does not parse or is not valid are removed.
CleanExpiredEntries ==
    LET goneEntries == {e \in cacheStore :
                           UnderPrefix(EntryKey(e.key)) /\ ~SweepKeeps(e.item)}
        goneColls == {c \in Colls : /\ storage[c].kind # "absent"
                                    /\ UnderPrefix(CollectionKey(c))
                                    /\ ~SweepKeepsCollection(storage[c])}
    IN  /\ cacheStore' = cacheStore \ goneEntries
        /\ storage' = [c \in Colls |-> IF c \in goneColls THEN Absent ELSE storage[c]]
        /\ last' = [NoCall EXCEPT !.op = "sweep", !.at = now]
        /\ UNCHANGED <<hasCache, am, dep, zoho, bak, cacheLog, api, auth, rt, sec, val, deb, sess, queue,
                       memoryCache, now, listeners, subs, microtasks, written, delivered>>

\* A value CacheManager.set did not write turns up under the prefix.
EntryCorrupted(key, item) ==
    /\ cacheStore' = StoreRemove(cacheStore, key) \cup {[key |-> key, item |-> item]}
    /\ last' = [NoCall EXCEPT !.op = "corrupt", !.key = key]
    /\ UNCHANGED <<storage, hasCache, am, dep, zoho, bak, cacheLog, api, auth, rt, sec, val, deb, sess, queue,
                   memoryCache, now, listeners, subs, microtasks, written, delivered>>

\* ------------------------------------------------- ApiService.executeRequest
\* this.retryAttempts, this.retryDelay
retryAttempts == 3
retryDelay == 1000

\* No call made yet.  pc: where the call stands; attempt: the loop variable;
\* fetches: fetch calls made by the call; waits: the delays awaited, in
\* order; errors: what each failed attempt caught, in order.
ApiIdle == [pc |-> "idle", attempt |-> 0, fetches |-> 0, waits |-> <<>>,
            errors |-> <<>>, lastError |-> "none", thrown |-> "none"]

\* How fetch settles: it resolves with an ok or an error status, or rejects
\* on a network failure or on the abort the timer fires after `timeout`.
FetchOutcomes == {"ok", "http", "network", "timeout"}
\* How response.json() settles.
BodyOutcomes == {"data", "badjson"}

\* The loop condition with one iteration too many.
LoopContinuesOnceMore(attempt) == attempt <= retryAttempts + 1

\* for (...; attempt <= this.retryAttempts; ...)
LoopContinues(attempt) == attempt <= retryAttempts

\* if (attempt < this.retryAttempts) await this.delay(...)
WaitsAfter(attempt) == attempt < retryAttempts

\* this.retryDelay * attempt
DelayFor(attempt) == retryDelay * attempt

\* attempt++ and the loop test: the next fetch is made, or the loop is left
\* and lastError thrown.
NextIteration(a) ==
    IF LoopContinues(a.attempt + 1)
    THEN [a EXCEPT !.pc = "fetching", !.attempt = @ + 1, !.fetches = @ + 1]
    ELSE [a EXCEPT !.pc = "threw", !.attempt = @ + 1, !.thrown = a.lastError]

\* The catch block: lastError = error, then the delay or the next iteration.
Caught(a, error) ==
    LET a1 == [a EXCEPT !.lastError = error, !.errors = Append(@, error)]
    IN  IF WaitsAfter(a.attempt) THEN [a1 EXCEPT !.pc = "waiting"]
        ELSE NextIteration(a1)

\* executeRequest(config, requestId) is called: attempt = 1 and the first
\* fetch is made.
ExecuteRequest ==
    /\ api.pc \in {"idle", "returned", "threw"}
    /\ api' = NextIteration(ApiIdle)
    /\ UNCHANGED <<storage, hasCache, am, dep, zoho, bak, cacheLog, auth, rt, sec, val, deb, sess, queue, memoryCache, cacheStore,
                   now, listeners, subs, microtasks, written, delivered, last>>

\* await fetch(...) settles.
FetchSettles(outcome) ==
    /\ api.pc = "fetching"
    /\ api.fetches <= MaxFetches
    /\ api' = IF outcome = "ok" THEN [api EXCEPT !.pc = "reading"]
              ELSE Caught(api, outcome)
    /\ UNCHANGED <<storage, hasCache, am, dep, zoho, bak, cacheLog, auth, rt, sec, val, deb, sess, queue, memoryCache, cacheStore,
                   now, listeners, subs, microtasks, written, delivered, last>>

\* await response.json() settles: the call returns, or the parse error is
\* caught like any other.
BodySettles(outcome) ==
    /\ api.pc = "reading"
    /\ api' = IF outcome = "data" THEN [api EXCEPT !.pc = "returned"]
              ELSE Caught(api, outcome)
    /\ UNCHANGED <<storage, hasCache, am, dep, zoho, bak, cacheLog, auth, rt, sec, val, deb, sess, queue, memoryCache, cacheStore,
                   now, listeners, subs, microtasks, written, delivered, last>>

\* await this.delay(ms) settles: its timer fired.
DelayElapsed ==
    /\ api.pc = "waiting"
    /\ api' = NextIteration([api EXCEPT !.waits = Append(@, DelayFor(api.attempt))])
    /\ UNCHANGED <<storage, hasCache, am, dep, zoho, bak, cacheLog, auth, rt, sec, val, deb, sess, queue, memoryCache, cacheStore,
                   now, listeners, subs, microtasks, written, delivered, last>>

\* ------------------------------------------ ProductionAuthManager.authenticate
\* PRODUCTION_AUTH_CONFIG.ENABLE_DETAILED_ERRORS, .MAX_LOGIN_ATTEMPTS
ENABLE_DETAILED_ERRORS == FALSE
MAX_LOGIN_ATTEMPTS == 5

Emails == {"ann@shop.io", "bob@shop.io"}

\* The errorMessages table of getErrorMessage.
ErrorMessages ==
    ("auth/user-not-found" :> "No account found with this email address.")
    @@ ("auth/wrong-password" :> "Incorrect password. Please try again.")
    @@ ("auth/invalid-email" :> "Invalid email address format.")
    @@ ("auth/user-disabled" :> "This account has been disabled.")
    @@ ("auth/too-many-requests" :> "Too many failed attempts. Please try again later.")
    @@ ("auth/network-request-failed" :> "Network error. Please check your connection.")
    @@ ("auth/invalid-credential" :>
            "Invalid credentials. Please check your email and password.")
    @@ ("Authentication timeout" :>
            "Authentication timed out. Please check your connection.")

\* The text returned when detailed errors are off, and the table's fallback.
GenericMessage == "Authentication failed. Please check your credentials and try again."
FallbackMessage == "Authentication failed. Please try again."

\* How the race of signInWithEmailAndPassword with the timer ends: a user, a
\* result without user, the timer's rejection, or a rejection by the service
\* with one of its codes (the last one is in no table).
ServiceCodes ==
    {"auth/user-not-found", "auth/wrong-password", "auth/invalid-email",
     "auth/user-disabled", "auth/too-many-requests", "auth/network-request-failed",
     "auth/invalid-credential", "auth/internal-error"}
SignInOutcomes == {"ok", "nouser", "timeout"} \cup ServiceCodes

\* The error the catch block receives: its code and its message.
ErrorOf(outcome) ==
    IF outcome = "nouser" THEN [code |-> "undefined", message |-> "Authentication failed"]
    ELSE IF outcome = "timeout"
    THEN [code |-> "undefined", message |-> "Authentication timeout"]
    ELSE [code |-> outcome, message |-> "Firebase: Error"]

NoError == [code |-> "undefined", message |-> ""]

\* getErrorMessage(error)
GetErrorMessage(error) ==
    IF ~ENABLE_DETAILED_ERRORS THEN GenericMessage
    ELSE IF error.code \in DOMAIN ErrorMessages THEN ErrorMessages[error.code]
    ELSE IF error.message \in DOMAIN ErrorMessages THEN ErrorMessages[error.message]
    ELSE FallbackMessage

NoAuthResult == [kind |-> "none", success |-> FALSE, message |-> "", email |-> "",
                 signInFailed |-> FALSE, error |-> NoError]

\* The manager as constructed: not initialized, no failed attempt recorded,
\* no lockout timer pending, no session stored, no call made.
\* LOCKOUT_DURATION: 300000
LOCKOUT_DURATION == 300000
NoAuthOp == [name |-> "none", email |-> "", at |-> 0, outcome |-> "none",
             lockedSince |-> {}]

AuthStart == [initialized |-> FALSE,
              loginAttempts |-> [e \in Emails |-> 0],
              lockout |-> {},
              session |-> "none",
              result |-> NoAuthResult,
              inFlight |-> <<>>,    \* calls awaiting the sign-in race: their emails
              lockTimers |-> {},    \* the lockout timers pending: email and due time
              limitAt |-> [e \in Emails |-> {}],
                                    \* when the count last reached the limit, if
                                    \* it has since it was last reset by a success
              op |-> NoAuthOp]      \* the last authenticate call as it began

\* authenticate(email, password).  initOk: whether initialize() succeeds when
\* it is needed; outcome: how the sign-in race ends.
Authenticate(email, initOk, outcome) ==
    /\ LET a1 == [auth EXCEPT !.initialized = TRUE]
           attempts == auth.loginAttempts[email]
           error == ErrorOf(outcome)
       IN  auth' =
             IF ~auth.initialized /\ ~initOk
             THEN [auth EXCEPT !.result = [NoAuthResult EXCEPT !.kind = "rejected",
                        !.email = email,
                        !.message = "Authentication service not available"]]
             ELSE IF attempts >= MAX_LOGIN_ATTEMPTS
             THEN [a1 EXCEPT !.result = [NoAuthResult EXCEPT !.kind = "rejected",
                        !.email = email,
                        !.message = "Too many login attempts. Please try again later."]]
             ELSE IF outcome = "ok"
             THEN [a1 EXCEPT !.loginAttempts[email] = 0,
                             !.session = email,
                             !.result = [NoAuthResult EXCEPT !.kind = "resolved",
                                            !.email = email, !.success = TRUE]]
             ELSE [a1 EXCEPT !.loginAttempts[email] = attempts + 1,
                             !.lockout = IF attempts + 1 >= MAX_LOGIN_ATTEMPTS
                                         THEN @ \cup {email} ELSE @,
                             !.result = [NoAuthResult EXCEPT !.kind = "resolved",
                                            !.email = email, !.success = FALSE,
                                            !.signInFailed = TRUE, !.error = error,
                                            !.message = GetErrorMessage(error)]]
    /\ UNCHANGED <<storage, hasCache, am, dep, zoho, bak, cacheLog, api, rt, sec, val, deb, sess, queue, memoryCache, cacheStore,
                   now, listeners, subs, microtasks, written, delivered, last>>

\* The timer recordFailedAttempt set after LOCKOUT_DURATION fires.
LockoutExpires(email) ==
    /\ email \in auth.lockout
    /\ auth' = [auth EXCEPT !.loginAttempts[email] = 0, !.lockout = @ \ {email}]
    /\ UNCHANGED <<storage, hasCache, am, dep, zoho, bak, cacheLog, api, rt, sec, val, deb, sess, queue, memoryCache, cacheStore,
                   now, listeners, subs, microtasks, written, delivered, last>>

\* authenticate as it runs: the call up to `await Promise.race`, and its
\* continuation when the race settles.  Calls may overlap: the rate limit is
\* tested before the await, the attempt is recorded after it.
AuthRest == <<storage, hasCache, am, dep, zoho, bak, cacheLog, api, rt, sec, val, deb,
              sess, queue, memoryCache, cacheStore, listeners, subs, microtasks,
              written, delivered, last>>

\* isRateLimited(email)
IsRateLimited(a, email) == a.loginAttempts[email] >= MAX_LOGIN_ATTEMPTS

\* authenticate(email, password) up to its await of the sign-in race.
AuthenticateBegins(email, initOk) ==
    /\ Len(auth.inFlight) < MaxFlights
    /\ LET a1 == [auth EXCEPT !.initialized = TRUE]
           began == [name |-> "authenticate", email |-> email, at |-> now,
                     outcome |-> "none", lockedSince |-> auth.limitAt[email]]
       IN  auth' =
             IF ~auth.initialized /\ ~initOk
             THEN [auth EXCEPT !.op = [began EXCEPT !.outcome = "unavailable"]]
             ELSE IF IsRateLimited(auth, email)
             THEN [a1 EXCEPT !.op = [began EXCEPT !.outcome = "limited"]]
             ELSE [a1 EXCEPT !.op = [began EXCEPT !.outcome = "signIn"],
                             !.inFlight = Append(@, email)]
    /\ UNCHANGED <<now>>
    /\ UNCHANGED AuthRest

\* The sign-in race of the i-th call in flight settles.  Success deletes the
\* count; a failure is recorded, and at or above the limit sets a timer that
\* deletes the count LOCKOUT_DURATION later.
SignInSettles(i, outcome) ==
    /\ i \in 1..Len(auth.inFlight)
    /\ LET email == auth.inFlight[i]
           attempts == auth.loginAttempts[email]
           rest == [j \in 1..(Len(auth.inFlight) - 1) |->
                       IF j < i THEN auth.inFlight[j] ELSE auth.inFlight[j + 1]]
       IN  auth' =
             IF outcome = "ok"
             THEN [auth EXCEPT !.inFlight = rest,
                               !.loginAttempts[email] = 0,
                               !.limitAt[email] = {},
                               !.session = email,
                               !.op = NoAuthOp]
             ELSE [auth EXCEPT !.inFlight = rest,
                               !.loginAttempts[email] = attempts + 1,
                               !.lockTimers =
                                   IF attempts + 1 >= MAX_LOGIN_ATTEMPTS
                                   THEN @ \cup {[email |-> email,
                                                 due |-> now + LOCKOUT_DURATION]}
                                   ELSE @,
                               !.limitAt[email] =
                                   IF attempts + 1 = MAX_LOGIN_ATTEMPTS THEN {now} ELSE @,
                               !.op = NoAuthOp]
    /\ UNCHANGED <<now>>
    /\ UNCHANGED AuthRest

\* A lockout timer fires when it is due: loginAttempts.delete(email).
LockTimerFires(t) ==
    /\ t \in auth.lockTimers
    /\ now >= t.due
    /\ auth' = [auth EXCEPT !.loginAttempts[t.email] = 0,
                            !.lockTimers = @ \ {t},
                            !.op = NoAuthOp]
    /\ UNCHANGED <<now>>
    /\ UNCHANGED AuthRest

\* Time passes, half a lockout at a time, while no timer is due.
LockWait ==
    /\ now < MaxLockWaits * (LOCKOUT_DURATION \div 2)
    /\ \A t \in auth.lockTimers : now < t.due
    /\ now' = now + (LOCKOUT_DURATION \div 2)
    /\ auth' = [auth EXCEPT !.op = NoAuthOp]
    /\ UNCHANGED AuthRest

\* ------------------------------------- snapshot listeners and their registries
\* The collections subscribed to, and the keys of window.__rtSubs: a path
\* given as options.key, or the text 'undefined' when options has no key.
RtPaths == {"orders", "invoices"}
RegKeys == RtPaths \cup {"undefined"}

\* A listener registered with the hosted store by onSnapshot: the registry
\* and slot its unsubscribe function was stored in, and the collection it
\* listens to.
ListenerIds ==
    {[reg |-> "rtSubs", slot |-> k, path |-> c] : k \in RegKeys, c \in RtPaths}
    \cup {[reg |-> "pathSub", slot |-> c, path |-> c] : c \in RtPaths}

NoRtOp == [name |-> "none", path |-> "", threw |-> FALSE]

\* The page before the hosted store is initialized.  dbReady:
\* window.firebaseServices.db is set; hasSubscribe: FirebaseData.subscribe and
\* clear are defined; rtSubs: window.__rtSubs, each slot with the collection
\* its listener is on; rtCache: the keys of window.__rtCache; pathSub:
\* window['__<path>Sub'] holds an unsubscribe function; pathData:
\* window['__<path>Data'] holds a list; subscriptions: DataLoader.subscriptions,
\* whose values here are all undefined; closures: the functions
\* _fallbackSubscribe returned; retries: the pending subscribe retry timers;
\* active: how many live listeners of each identity the store holds.
RtStart == [dbReady |-> FALSE,
            hasSubscribe |-> FALSE,
            rtSubs |-> [k \in RegKeys |-> "none"],
            rtCache |-> {},
            pathSub |-> [c \in RtPaths |-> FALSE],
            pathData |-> {},
            subscriptions |-> {},
            closures |-> {},
            retries |-> {},
            active |-> [l \in ListenerIds |-> 0],
            op |-> NoRtOp]

RtRest == <<storage, hasCache, am, dep, zoho, bak, cacheLog, api, auth, sec, val, deb, sess, queue, memoryCache, cacheStore, now,
            listeners, subs, microtasks, written, delivered, last>>

\* The hosted store is initialized; the initializer of the real-time
\* utilities also defines FirebaseData.subscribe and clear, the other
\* initializers set window.firebaseServices only.
FirebaseInit(withSubscribe) ==
    /\ ~rt.dbReady
    /\ rt' = [rt EXCEPT !.dbReady = TRUE, !.hasSubscribe = withSubscribe,
                        !.op = [NoRtOp EXCEPT !.name = "init"]]
    /\ UNCHANGED RtRest

\* FirebaseData.subscribe(options) on r: the listener is set up once per
\* options.key; nothing is returned.
RtSubscribe(r, key, path) ==
    IF r.rtSubs[key] = "none"
    THEN [r EXCEPT !.rtSubs[key] = path,
                   !.active[[reg |-> "rtSubs", slot |-> key, path |-> path]] = @ + 1]
    ELSE r

\* _fallbackSubscribe(options) on r: the listener is set up unless
\* window['__<path>Sub'] is set; a function that stops it is returned.
FallbackSubscribe(r, path) ==
    LET r1 == IF ~r.pathSub[path]
              THEN [r EXCEPT !.pathSub[path] = TRUE,
                             !.active[[reg |-> "pathSub", slot |-> path, path |-> path]] = @ + 1]
              ELSE r
    IN  [r1 EXCEPT !.closures = @ \cup {path}]

\* window['__<path>Sub'](); window['__<path>Sub'] = null, when it is set.
StopPathSub(r, path) ==
    IF r.pathSub[path]
    THEN [r EXCEPT !.pathSub[path] = FALSE,
                   !.active[[reg |-> "pathSub", slot |-> path, path |-> path]] = @ - 1]
    ELSE r

\* FirebaseData.subscribe({key, path, onChange}) called by a page.
FirebaseDataSubscribe(key, path) ==
    /\ rt.hasSubscribe
    /\ rt' = [RtSubscribe(rt, key, path) EXCEPT
                 !.op = [NoRtOp EXCEPT !.name = "subscribe", !.path = path]]
    /\ UNCHANGED RtRest

\* FirebaseData.clear(): every function held in __rtSubs is called, then both
\* registries are replaced by empty objects.
FirebaseDataClear ==
    /\ rt.hasSubscribe
    /\ rt' = [rt EXCEPT
                 !.active = [l \in ListenerIds |->
                     IF l.reg = "rtSubs" /\ rt.rtSubs[l.slot] = l.path
                     THEN rt.active[l] - 1 ELSE rt.active[l]],
                 !.rtSubs = [k \in RegKeys |-> "none"],
                 !.rtCache = {},
                 !.op = [NoRtOp EXCEPT !.name = "clear"]]
    /\ UNCHANGED RtRest

\* options without a path: the destructured path is undefined.
NoPath == ""

\* DataLoader.subscribe({path, callback}): without a path, an error is
\* logged and null returned; with one, a retry timer while the store is
\* not ready; FirebaseData.subscribe with options that carry no key, whose
\* return value (undefined) is stored under the path; or the fallback, whose
\* return value is not stored.
DataLoaderSubscribe(path) ==
    /\ rt' = [(IF path = NoPath THEN rt
               ELSE IF ~rt.dbReady THEN [rt EXCEPT !.retries = @ \cup {path}]
               ELSE IF rt.hasSubscribe
               THEN [RtSubscribe(rt, "undefined", path) EXCEPT
                        !.subscriptions = @ \cup {path}]
               ELSE FallbackSubscribe(rt, path))
              EXCEPT !.op = [NoRtOp EXCEPT !.name = "loaderSubscribe", !.path = path]]
    /\ UNCHANGED RtRest

\* setTimeout(() => this.subscribe(options), 100) fires.
RetryFires(path) ==
    /\ path \in rt.retries
    /\ LET r == [rt EXCEPT !.retries = @ \ {path}]
       IN  rt' = [(IF ~r.dbReady THEN [r EXCEPT !.retries = @ \cup {path}]
                   ELSE IF r.hasSubscribe
                   THEN [RtSubscribe(r, "undefined", path) EXCEPT
                            !.subscriptions = @ \cup {path}]
                   ELSE FallbackSubscribe(r, path))
                  EXCEPT !.op = [NoRtOp EXCEPT !.name = "loaderSubscribe", !.path = path]]
    /\ UNCHANGED RtRest

\* The function _fallbackSubscribe returned is called.
ReturnedUnsubscribe(path) ==
    /\ path \in rt.closures
    /\ rt' = [StopPathSub(rt, path) EXCEPT
                 !.op = [NoRtOp EXCEPT !.name = "unsubscribe", !.path = path]]
    /\ UNCHANGED RtRest

\* DataLoader.unsubscribe(path): the stored value is undefined or missing, so
\* nothing is called and nothing deleted.
DataLoaderUnsubscribe(path) ==
    /\ rt' = [rt EXCEPT !.op = [NoRtOp EXCEPT !.name = "unsubscribe", !.path = path]]
    /\ UNCHANGED RtRest

\* DataLoader.unsubscribeAll(): calling a stored undefined throws before
\* subscriptions.clear().
DataLoaderUnsubscribeAll ==
    /\ rt' = [rt EXCEPT !.op = [NoRtOp EXCEPT !.name = "unsubscribeAll",
                                    !.threw = (rt.subscriptions # {})]]
    /\ UNCHANGED RtRest

\* DataLoader.clearCache(path)
DataLoaderClearCache(path) ==
    /\ rt' = [StopPathSub(rt, path) EXCEPT
                 !.pathData = @ \ {path},
                 !.op = [NoRtOp EXCEPT !.name = "clearCache", !.path = path]]
    /\ UNCHANGED RtRest

\* The store delivers a snapshot to a live listener, which keeps the list.
SnapshotArrives(l) ==
    /\ rt.active[l] > 0
    /\ rt' = [rt EXCEPT
                 !.rtCache = IF l.reg = "rtSubs" THEN @ \cup {l.slot} ELSE @,
                 !.pathData = IF l.reg = "pathSub" THEN @ \cup {l.path} ELSE @,
                 !.op = [NoRtOp EXCEPT !.name = "snapshot", !.path = l.path]]
    /\ UNCHANGED RtRest

\* ------------------------------------------- SecurityManager rate limiting
\* this.maxLoginAttempts, this.lockoutDuration (15 * 60 * 1000)
maxLoginAttempts == 5
lockoutDuration == 900000

\* The identifiers whose attempts are counted, each under its own key
\* 'loginAttempts_<identifier>'.
Identifiers == {"test_user", "admin"}

NoSecOp == [name |-> "none", id |-> "", success |-> FALSE, allowed |-> TRUE,
            remainingTime |-> 0, promised |-> {}]

\* No key is stored: getItem(...) || '[]' reads an absent key as the empty
\* list.  failed: the times of the failed attempts recorded for each
\* identifier since its last recorded success, whatever the storage holds.
\* until: the time the last refusal of an identifier named as its end (the
\* time of the check plus remainingTime), while no attempt was recorded since.
SecStart == [attempts |-> [i \in Identifiers |-> <<>>],
             failed |-> [i \in Identifiers |-> <<>>],
             until |-> [i \in Identifiers |-> {}],
             op |-> NoSecOp]

\* attempts.filter(time => now - time < this.lockoutDuration)
RecentAttempts(attempts) == SelectSeq(attempts, LAMBDA t : now - t < lockoutDuration)

\* A limit that is reached only with one attempt more.
LimitExceeded(recent) == Len(recent) > maxLoginAttempts

\* recentAttempts.length >= this.maxLoginAttempts
LimitReached(recent) == Len(recent) >= maxLoginAttempts

\* How many attempts the storage holds, all keys together.
RECURSIVE SumLen(_, _)
SumLen(f, S) ==
    IF S = {} THEN 0
    ELSE LET i == CHOOSE x \in S : TRUE IN Len(f[i]) + SumLen(f, S \ {i})
StoredAttempts == SumLen(sec.attempts, Identifiers)

SecRest == <<storage, hasCache, am, dep, zoho, bak, memoryCache, cacheStore, listeners, subs, microtasks,
             written, delivered, last, cacheLog, api, auth, rt, val, deb, sess, queue>>

\* SecurityManager.checkRateLimit(identifier)
CheckRateLimit(id) ==
    LET recent == RecentAttempts(sec.attempts[id])
        remainingTime == lockoutDuration - (now - recent[1])
    IN  /\ sec' = [sec EXCEPT
                     !.op =
                       IF LimitReached(recent)
                       THEN [NoSecOp EXCEPT !.name = "check", !.id = id, !.allowed = FALSE,
                                !.remainingTime = remainingTime,
                                !.promised = sec.until[id]]
                       ELSE [NoSecOp EXCEPT !.name = "check", !.id = id,
                                !.promised = sec.until[id]],
                     !.until[id] = IF LimitReached(recent) THEN {now + remainingTime}
                                   ELSE {}]
        /\ UNCHANGED <<now, SecRest>>

\* SecurityManager.recordLoginAttempt(identifier, success)
RecordLoginAttempt(id, success) ==
    /\ success \/ StoredAttempts < MaxAttempts
    /\ sec' = [sec EXCEPT
                 !.attempts[id] = IF success THEN <<>> ELSE Append(@, now),
                 !.failed[id] = IF success THEN <<>> ELSE Append(@, now),
                 !.until[id] = {},
                 !.op = [NoSecOp EXCEPT !.name = "record", !.id = id,
                                        !.success = success]]
    /\ UNCHANGED <<now, SecRest>>

\* Time passes: a third of the lockout at a time.
Wait ==
    /\ now < MaxWaits * (lockoutDuration \div 3)
    /\ now' = now + (lockoutDuration \div 3)
    /\ sec' = [sec EXCEPT !.op = NoSecOp]
    /\ UNCHANGED SecRest


\* ------------------------------------------------------------ DataValidator
\* A JavaScript value handed to a validator: a string (its UTF-16 units, one
\* per element), a number num / scale (scale a power of ten), null or
\* undefined.
StringValue(text) == [kind |-> "string", text |-> text, num |-> 0, scale |-> 1]
NumberValue(n) == [kind |-> "number", text |-> <<>>, num |-> n, scale |-> 1]
DecimalValue(n, scale) == [kind |-> "number", text |-> <<>>, num |-> n, scale |-> scale]
NullValue == [kind |-> "null", text |-> <<>>, num |-> 0, scale |-> 1]
UndefinedValue == [kind |-> "undefined", text |-> <<>>, num |-> 0, scale |-> 1]

\* The character classes of the regular expressions.
UpperCase == {"A", "B", "C", "D", "E", "F", "G", "H", "I", "J", "K", "L", "M",
              "N", "O", "P", "Q", "R", "S", "T", "U", "V", "W", "X", "Y", "Z"}
LowerCase == {"a", "b", "c", "d", "e", "f", "g", "h", "i", "j", "k", "l", "m",
              "n", "o", "p", "q", "r", "s", "t", "u", "v", "w", "x", "y", "z"}
DigitChars == <<"0", "1", "2", "3", "4", "5", "6", "7", "8", "9">>
Digit == {DigitChars[i] : i \in 1..Len(DigitChars)}
\* \s
WhiteSpace == {" ", "\t", "\n"}
\* [!@#$%^&*(),.?":{}|<>]
SpecialChar == {"!", "@", "#", "$", "%", "^", "&", "*", "(", ")", ",", ".", "?",
                "\"", ":", "{", "}", "|", "<", ">"}

\* Every unit of text between from and to is in the class.
AllIn(text, from, to, class) == \A i \in from..to : text[i] \in class
\* Some unit of text is in the class: /[class]/.test(text)
SomeIn(text, class) == \E i \in 1..Len(text) : text[i] \in class

\* String.prototype.trim
RECURSIVE TrimStart(_)
TrimStart(text) ==
    IF text # <<>> /\ Head(text) \in WhiteSpace THEN TrimStart(Tail(text)) ELSE text
RECURSIVE TrimEnd(_)
TrimEnd(text) ==
    IF text # <<>> /\ text[Len(text)] \in WhiteSpace
    THEN TrimEnd(SubSeq(text, 1, Len(text) - 1)) ELSE text
Trim(text) == TrimEnd(TrimStart(text))

\* The decimal digits of a natural number, and String(value) as the
\* regular expressions' test and replace see it.
RECURSIVE DigitsOf(_)
DigitsOf(n) ==
    IF n < 10 THEN <<DigitChars[n + 1]>>
    ELSE Append(DigitsOf(n \div 10), DigitChars[(n % 10) + 1])
ToText(v) ==
    IF v.kind = "string" THEN v.text
    ELSE IF v.kind = "number"
    THEN (IF v.num < 0 THEN <<"-">> \o DigitsOf(0 - v.num) ELSE DigitsOf(v.num))
    ELSE IF v.kind = "null" THEN <<"n", "u", "l", "l">>
    ELSE <<"u", "n", "d", "e", "f", "i", "n", "e", "d">>

\* !value
Falsy(v) ==
    \/ v.kind \in {"null", "undefined"}
    \/ v.kind = "string" /\ v.text = <<>>
    \/ v.kind = "number" /\ v.num = 0

\* rules.email: /^[^\s@]+@[^\s@]+\.[^\s@]+$/
EmailPart(text, from, to) ==
    from <= to /\ \A i \in from..to : text[i] \notin WhiteSpace \cup {"@"}
MatchesEmail(text) ==
    \E i \in 1..Len(text), j \in 1..Len(text) :
        /\ text[i] = "@" /\ text[j] = "." /\ i < j
        /\ EmailPart(text, 1, i - 1)
        /\ EmailPart(text, i + 1, j - 1)
        /\ EmailPart(text, j + 1, Len(text))

\* rules.phone: /^[\+]?[1-9][\d]{0,15}$/
MatchesPhone(text) ==
    LET t == IF text # <<>> /\ Head(text) = "+" THEN Tail(text) ELSE text
    IN  /\ Len(t) >= 1 /\ Len(t) <= 16
        /\ t[1] \in Digit \ {"0"}
        /\ AllIn(t, 2, Len(t), Digit)

\* rules.name: /^[a-zA-Z\s\-'\.]+$/
MatchesName(text) ==
    /\ text # <<>>
    /\ AllIn(text, 1, Len(text), UpperCase \cup LowerCase \cup WhiteSpace \cup {"-", "'", "."})

\* rules.orderId: /^[a-zA-Z0-9_\-]+$/
MatchesOrderId(text) ==
    /\ text # <<>>
    /\ AllIn(text, 1, Len(text), UpperCase \cup LowerCase \cup Digit \cup {"_", "-"})

\* rules.invoiceId: /^INV-\d{4}-\d{3}$/
MatchesInvoiceId(text) ==
    /\ Len(text) = 12
    /\ SubSeq(text, 1, 4) = <<"I", "N", "V", "-">>
    /\ AllIn(text, 5, 8, Digit)
    /\ text[9] = "-"
    /\ AllIn(text, 10, 12, Digit)

\* value.replace(/[\s\-\(\)]/g, '')
CleanPhone(text) == SelectSeq(text, LAMBDA c : c \notin WhiteSpace \cup {"-", "(", ")"})

\* The value of a run of decimal digits.
RECURSIVE DigitsValue(_)
DigitsValue(text) ==
    IF text = <<>> THEN 0
    ELSE 10 * DigitsValue(SubSeq(text, 1, Len(text) - 1))
         + ((CHOOSE i \in 1..10 : DigitChars[i] = text[Len(text)]) - 1)
RECURSIVE PowerOfTen(_)
PowerOfTen(k) == IF k = 0 THEN 1 ELSE 10 * PowerOfTen(k - 1)

\* Number(value) for a text of letters, digits, blanks, signs and points: a
\* sign, then digits with at most one decimal point and at least one digit;
\* anything else is NaN.  null is 0 and undefined is NaN.
NaN == [nan |-> TRUE, num |-> 0, scale |-> 1]
NumberOfText(text) ==
    LET t == Trim(text)
        neg == t # <<>> /\ Head(t) = "-"
        u == IF t # <<>> /\ Head(t) \in {"-", "+"} THEN Tail(t) ELSE t
        points == {i \in 1..Len(u) : u[i] = "."}
        digits == SelectSeq(u, LAMBDA c : c \in Digit)
        frac == IF points = {} THEN 0 ELSE Len(u) - (CHOOSE i \in points : TRUE)
    IN  IF t = <<>> THEN [nan |-> FALSE, num |-> 0, scale |-> 1]
        ELSE IF /\ AllIn(u, 1, Len(u), Digit \cup {"."})
                /\ Cardinality(points) <= 1
                /\ digits # <<>>
        THEN [nan |-> FALSE,
              num |-> IF neg THEN 0 - DigitsValue(digits) ELSE DigitsValue(digits),
              scale |-> PowerOfTen(frac)]
        ELSE NaN
NumberOf(v) ==
    IF v.kind = "string" THEN NumberOfText(v.text)
    ELSE IF v.kind = "number" THEN [nan |-> FALSE, num |-> v.num, scale |-> v.scale]
    ELSE IF v.kind = "null" THEN [nan |-> FALSE, num |-> 0, scale |-> 1]
    ELSE NaN

\* An entry of an errors list: the field prefix validateOrder adds, the
\* message, and the text interpolated into it.
Message(text, arg) == [field |-> "", text |-> text, arg |-> arg]

\* What a validator call came to: threw, or the result object returned.
Threw == [threw |-> TRUE, isValid |-> FALSE, value |-> UndefinedValue, errors |-> <<>>]
Returned(isValid, value, errors) ==
    [threw |-> FALSE, isValid |-> isValid, value |-> value, errors |-> errors]

\* The type-specific part of validateInput, on the trimmed value v.
\* RegExp.test converts its argument to a string; value.replace exists on
\* strings only; value.length of a number is undefined, and a comparison
\* with undefined is false.
TypeCheck(v, type, options) ==
    LET text == ToText(v)
        fail(msg) == Returned(FALSE, v, <<Message(msg, <<>>)>>)
    IN  CASE type = "email" ->
               IF MatchesEmail(text) THEN Returned(TRUE, v, <<>>)
               ELSE fail("Invalid email format")
          [] type = "phone" ->
               IF v.kind # "string" THEN Threw
               ELSE IF MatchesPhone(CleanPhone(v.text))
               THEN Returned(TRUE, StringValue(CleanPhone(v.text)), <<>>)
               ELSE Returned(FALSE, StringValue(CleanPhone(v.text)),
                             <<Message("Invalid phone number format", <<>>)>>)
          [] type = "name" ->
               IF MatchesName(text) THEN Returned(TRUE, v, <<>>)
               ELSE fail("Name contains invalid characters")
          [] type = "orderId" ->
               IF MatchesOrderId(text) THEN Returned(TRUE, v, <<>>)
               ELSE fail("Invalid order ID format")
          [] type = "invoiceId" ->
               IF MatchesInvoiceId(text) THEN Returned(TRUE, v, <<>>)
               ELSE fail("Invalid invoice ID format")
          [] type = "number" ->
               LET n == NumberOf(v)
                   low == "min" \in DOMAIN options /\ n.num < options.min * n.scale
                   high == "max" \in DOMAIN options /\ n.num > options.max * n.scale
               IN  IF n.nan THEN fail("Must be a valid number")
                   ELSE Returned(~low /\ ~high, DecimalValue(n.num, n.scale),
                           (IF low THEN <<Message("Must be at least", DigitsOf(options.min))>>
                            ELSE <<>>)
                           \o (IF high THEN <<Message("Must be at most", DigitsOf(options.max))>>
                               ELSE <<>>))
          [] type = "string" ->
               LET short == /\ "minLength" \in DOMAIN options /\ options.minLength # 0
                            /\ v.kind = "string" /\ Len(v.text) < options.minLength
                   long == /\ "maxLength" \in DOMAIN options /\ options.maxLength # 0
                           /\ v.kind = "string" /\ Len(v.text) > options.maxLength
               IN  Returned(~short /\ ~long, v,
                       (IF short THEN <<Message("Must be at least", DigitsOf(options.minLength))>>
                        ELSE <<>>)
                       \o (IF long THEN <<Message("Must be at most", DigitsOf(options.maxLength))>>
                           ELSE <<>>))
          [] OTHER -> Returned(TRUE, v, <<>>)

\* DataValidator.validateInput(value, type, options)
ValidateInput(value, type, options) ==
    LET v == IF value.kind = "string" THEN StringValue(Trim(value.text)) ELSE value
        required == "required" \in DOMAIN options /\ options.required
    IN  IF required /\ Falsy(v)
        THEN Returned(FALSE, v, <<Message("is required", type)>>)
        ELSE IF Falsy(v) THEN Returned(TRUE, v, <<>>)
        ELSE TypeCheck(v, type, options)

\* DataValidator.validatePassword(password): password.length of null or
\* undefined is a TypeError; of a number it is undefined, and undefined < 8
\* is false.
ValidatePassword(password) ==
    IF password.kind \in {"null", "undefined"} THEN Threw
    ELSE LET text == ToText(password)
             check(failed, msg) == IF failed THEN <<Message(msg, <<>>)>> ELSE <<>>
             errors ==
                 check(password.kind = "string" /\ Len(text) < 8,
                       "Password must be at least 8 characters long")
                 \o check(~SomeIn(text, UpperCase),
                          "Password must contain at least one uppercase letter")
                 \o check(~SomeIn(text, LowerCase),
                          "Password must contain at least one lowercase letter")
                 \o check(~SomeIn(text, Digit),
                          "Password must contain at least one number")
                 \o check(~SomeIn(text, SpecialChar),
                          "Password must contain at least one special character")
         IN  Returned(errors = <<>>, password, errors)

\* orderData.<name>: undefined when the object has no such property.
Field(obj, name) == IF name \in DOMAIN obj THEN obj[name] ELSE UndefinedValue

\* The fields validateOrder goes through, in order: the property, the prefix
\* of its messages, the type and options handed to validateInput, and
\* whether the field is validated whatever its value (else only when truthy).
OrderFields == <<
    [name |-> "customerName", label |-> "Customer Name", type |-> "name",
     options |-> [required |-> TRUE, minLength |-> 2, maxLength |-> 100], always |-> TRUE],
    [name |-> "email", label |-> "Email", type |-> "email",
     options |-> [maxLength |-> 255], always |-> FALSE],
    [name |-> "mobile", label |-> "Mobile", type |-> "phone",
     options |-> EmptyObj, always |-> FALSE],
    [name |-> "quantity", label |-> "Quantity", type |-> "number",
     options |-> [required |-> TRUE, min |-> 1, max |-> 1000], always |-> TRUE],
    [name |-> "jtype", label |-> "Jersey Type", type |-> "string",
     options |-> [required |-> TRUE, maxLength |-> 50], always |-> FALSE],
    [name |-> "jname", label |-> "Jersey Name", type |-> "string",
     options |-> [required |-> TRUE, maxLength |-> 100], always |-> FALSE],
    [name |-> "jnum", label |-> "Jersey Number", type |-> "number",
     options |-> [required |-> TRUE, min |-> 0, max |-> 999], always |-> FALSE] >>

\* validateOrder from its k-th field on, with the errors collected so far:
\* a validateInput call that throws ends the whole call.
RECURSIVE ValidateOrderFrom(_, _, _)
ValidateOrderFrom(obj, k, errors) ==
    IF k > Len(OrderFields) THEN Returned(errors = <<>>, UndefinedValue, errors)
    ELSE LET f == OrderFields[k]
             v == Field(obj, f.name)
         IN  IF ~f.always /\ Falsy(v) THEN ValidateOrderFrom(obj, k + 1, errors)
             ELSE LET r == ValidateInput(v, f.type, f.options)
                  IN  IF r.threw THEN Threw
                      ELSE ValidateOrderFrom(obj, k + 1,
                              errors \o [i \in 1..Len(r.errors) |->
                                            [r.errors[i] EXCEPT !.field = f.label]])

\* DataValidator.validateOrder(orderData): orderData.customerName of null or
\* undefined is a TypeError.
ValidateOrder(orderData) ==
    IF orderData.kind # "object" THEN Threw
    ELSE ValidateOrderFrom(orderData.fields, 1, <<>>)

\* No validator called yet.
NoValidation == [fn |-> "none", arg |-> UndefinedValue, type |-> "", options |-> EmptyObj,
                 result |-> Returned(TRUE, UndefinedValue, <<>>)]

ValRest == <<storage, hasCache, am, dep, zoho, bak, memoryCache, cacheStore, now, listeners, subs,
             microtasks, written, delivered, last, cacheLog, api, auth, rt, sec, deb,
             sess, queue>>

\* A page calls validateInput, validatePassword or validateOrder.
ValidateInputCall(value, type, options) ==
    /\ val' = [fn |-> "validateInput", arg |-> value, type |-> type,
               options |-> options, result |-> ValidateInput(value, type, options)]
    /\ UNCHANGED ValRest

ValidatePasswordCall(password) ==
    /\ val' = [fn |-> "validatePassword", arg |-> password, type |-> "",
               options |-> EmptyObj, result |-> ValidatePassword(password)]
    /\ UNCHANGED ValRest

ValidateOrderCall(orderData) ==
    /\ val' = [fn |-> "validateOrder", arg |-> orderData, type |-> "",
               options |-> EmptyObj, result |-> ValidateOrder(orderData)]
    /\ UNCHANGED ValRest

\* The record of the last call is dropped before the next one.
ValidationForgotten ==
    /\ val.fn # "none"
    /\ val' = NoValidation
    /\ UNCHANGED ValRest

\* ------------------------------------------------ PerformanceManager.debounce
\* The delay the wrappers are made with.
debounceDelay == 100

\* The wrappers made by debounce(func, delay, key): two functions wrapped
\* without a key, which share the key 'default', and one wrapped under a key
\* of its own.
Wrappers == {[fn |-> "render", key |-> "default"],
             [fn |-> "save", key |-> "default"],
             [fn |-> "search", key |-> "test_debounce"]}
DebFuncs == {w.fn : w \in Wrappers}
DebKeys == {w.key : w \in Wrappers}
DebArgs == {1, 2}

\* No timer under a key; no call of a function yet; no run yet.
NoTimer == [set |-> FALSE, fn |-> "", arg |-> 0, due |-> 0]
NoBurst == [called |-> FALSE, arg |-> 0, at |-> 0, runs |-> 0]
NoRun == [set |-> FALSE, fn |-> "", arg |-> 0, at |-> 0, callArg |-> 0, callAt |-> 0]

\* timers: this.debounceTimers, with what each pending timer will run and
\* when; burst: for each function, the last call of its wrapper (of the
\* calls less than the delay apart that it ends) and how often the function
\* ran since that burst began; lastRun: the last run of a function, with the
\* last call of its wrapper before it.
DebStart == [timers |-> [k \in DebKeys |-> NoTimer],
             burst |-> [f \in DebFuncs |-> NoBurst],
             lastRun |-> NoRun]

\* A timer whose delay has elapsed runs before anything else happens.
TimerDue == \E k \in DebKeys : deb.timers[k].set /\ deb.timers[k].due <= now

DebRest == <<storage, hasCache, am, dep, zoho, bak, memoryCache, cacheStore, listeners, subs, microtasks,
             written, delivered, last, cacheLog, api, auth, rt, sec, val, sess, queue>>

\* The wrapper w is called with arg: the timer under its key is cleared,
\* whichever wrapper set it, and a new one is set.
CallDebounced(w, arg) ==
    /\ ~TimerDue
    /\ LET b == deb.burst[w.fn]
       IN  deb' = [deb EXCEPT
                     !.timers[w.key] = [set |-> TRUE, fn |-> w.fn, arg |-> arg,
                                        due |-> now + debounceDelay],
                     !.burst[w.fn] =
                         IF b.called /\ now - b.at < debounceDelay
                         THEN [b EXCEPT !.arg = arg, !.at = now]
                         ELSE [called |-> TRUE, arg |-> arg, at |-> now, runs |-> 0]]
    /\ UNCHANGED <<now, DebRest>>

\* The timer under key k fires: func.apply(this, args), then the key is
\* deleted.
DebounceTimerFires(k) ==
    /\ deb.timers[k].set /\ deb.timers[k].due <= now
    /\ LET t == deb.timers[k]
       IN  deb' = [deb EXCEPT
                     !.timers[k] = NoTimer,
                     !.burst[t.fn].runs = @ + 1,
                     !.lastRun = [set |-> TRUE, fn |-> t.fn, arg |-> t.arg, at |-> now,
                                  callArg |-> deb.burst[t.fn].arg,
                                  callAt |-> deb.burst[t.fn].at]]
    /\ UNCHANGED <<now, DebRest>>

\* Time passes: half a delay at a time.
DebounceTick ==
    /\ ~TimerDue
    /\ now < MaxDebTicks * (debounceDelay \div 2)
    /\ now' = now + (debounceDelay \div 2)
    /\ UNCHANGED <<deb, DebRest>>

\* ------------------------------------------------- the local session record
\* The accounts of the hosted auth service, and no signed-in user.
Users == {[uid |-> "u1", email |-> "ann@shop.io"], [uid |-> "u2", email |-> "bob@shop.io"]}
NoUser == [uid |-> "", email |-> ""]

\* localStorage without the key 'userSession'.
NoSession == [present |-> FALSE, username |-> "", uid |-> "", role |-> "", loginTime |-> 0]

\* user: auth.currentUser; events: the auth-state changes the service has
\* not yet reported to the onAuthStateChanged handler, each with the user it
\* will report; stored: the value under 'userSession'; op: the last
\* operation completed.
SessStart == [user |-> NoUser, events |-> <<>>, stored |-> NoSession, op |-> "none"]

SessRest == <<storage, hasCache, am, dep, zoho, bak, memoryCache, cacheStore, now, listeners, subs,
              microtasks, written, delivered, last, cacheLog, api, auth, rt, sec, val,
              deb, queue>>

\* Auth.login(email, password) succeeds: the service has a user and will
\* report the change.
AuthLogin(u) ==
    /\ Len(sess.events) < MaxEvents
    /\ sess' = [sess EXCEPT !.user = u, !.events = Append(@, u), !.op = "Auth.login"]
    /\ UNCHANGED SessRest

\* The handler given to auth.onAuthStateChanged runs: with a user, the
\* session is written from it; without, the key is removed.
AuthStateChanged ==
    /\ sess.events # <<>>
    /\ LET user == Head(sess.events)
       IN  sess' = [sess EXCEPT
                      !.events = Tail(@),
                      !.stored = IF user # NoUser
                                 THEN [present |-> TRUE, username |-> user.email,
                                       uid |-> user.uid, role |-> "User",
                                       loginTime |-> now]
                                 ELSE NoSession,
                      !.op = "authStateChanged"]
    /\ UNCHANGED SessRest

\* Auth.logout(): auth.signOut() is awaited; the service has no user and
\* will report the change.
AuthLogout ==
    /\ Len(sess.events) < MaxEvents
    /\ sess' = [sess EXCEPT !.user = NoUser, !.events = Append(@, NoUser),
                            !.op = "Auth.logout"]
    /\ UNCHANGED SessRest

\* SimpleAuth.signOut(): auth.signOut() is awaited, then the key is removed.
SimpleAuthSignOut ==
    /\ Len(sess.events) < MaxEvents
    /\ sess' = [sess EXCEPT !.user = NoUser, !.events = Append(@, NoUser),
                            !.stored = NoSession, !.op = "SimpleAuth.signOut"]
    /\ UNCHANGED SessRest

\* AuthManager.logout(): the key is removed; the service is not called.
AuthManagerLogout ==
    /\ sess' = [sess EXCEPT !.stored = NoSession, !.op = "AuthManager.logout"]
    /\ UNCHANGED SessRest

\* ------------------------------------------------ ApiService offline queue
\* The ids generateRequestId gives out, taken to be all different.
RequestIds == 1..MaxRequests

\* isOnline: this.isOnline; memory: this.requestQueue, as the ids of its
\* requests; persisted: the list under 'requestQueue' in localStorage; runs:
\* the processQueue calls in progress, each with the list it parsed and the
\* position of the request it awaits; accepted: the requests answered with
\* 202; sent: how often each request was executed successfully; op: the last
\* step.
QueueStart == [isOnline |-> TRUE, memory |-> <<>>, persisted |-> <<>>, runs |-> <<>>,
               accepted |-> {}, sent |-> [r \in RequestIds |-> 0], op |-> "none"]

QueueRest == <<storage, hasCache, am, dep, zoho, bak, memoryCache, cacheStore, now, listeners, subs,
               microtasks, written, delivered, last, cacheLog, api, auth, rt, sec, val,
               deb, sess>>

\* The 'offline' event.
GoesOffline ==
    /\ queue.isOnline
    /\ queue' = [queue EXCEPT !.isOnline = FALSE, !.op = "offline"]
    /\ UNCHANGED QueueRest

\* request(config) with a method other than GET while offline: addToQueue
\* pushes onto this.requestQueue and writes that list to localStorage.
AddToQueue ==
    /\ ~queue.isOnline
    /\ Cardinality(queue.accepted) < MaxRequests
    /\ LET id == Cardinality(queue.accepted) + 1
           list == Append(queue.memory, id)
       IN  queue' = [queue EXCEPT !.memory = list, !.persisted = list,
                                  !.accepted = @ \cup {id}, !.op = "addToQueue"]
    /\ UNCHANGED QueueRest

\* The 'online' event: isOnline is set and processQueue() is called, which
\* parses the persisted list and goes on to await its first request.
GoesOnline ==
    /\ ~queue.isOnline
    /\ Len(queue.runs) < MaxRuns
    /\ queue' = [queue EXCEPT
                    !.isOnline = TRUE,
                    !.runs = IF queue.persisted = <<>> THEN @
                             ELSE Append(@, [list |-> queue.persisted, at |-> 1]),
                    !.op = "online"]
    /\ UNCHANGED QueueRest

\* removeFromQueue(requestId), on the two lists.
RemoveFromQueue(memory, id) == SelectSeq(memory, LAMBDA r : r # id)

\* The run with the awaited request dropped: on to the next one, or done.
Advance(runs, i) ==
    IF runs[i].at < Len(runs[i].list)
    THEN [runs EXCEPT ![i].at = @ + 1]
    ELSE [k \in 1..(Len(runs) - 1) |-> IF k < i THEN runs[k] ELSE runs[k + 1]]

\* The executeRequest a processQueue run awaits settles: when it succeeded
\* the request is removed from this.requestQueue, which is written to
\* localStorage; when it threw the error is logged.  The loop goes on.
QueuedRequestSettles(i, ok) ==
    /\ i \in 1..Len(queue.runs)
    /\ LET id == queue.runs[i].list[queue.runs[i].at]
           list == RemoveFromQueue(queue.memory, id)
       IN  /\ ok => queue.sent[id] < MaxSends
           /\ queue' = [queue EXCEPT
                          !.runs = Advance(@, i),
                          !.memory = IF ok THEN list ELSE @,
                          !.persisted = IF ok THEN list ELSE @,
                          !.sent[id] = IF ok THEN @ + 1 ELSE @,
                          !.op = IF ok THEN "sent" ELSE "failed"]
    /\ UNCHANGED QueueRest

\* The page is loaded again: a new ApiService with an empty requestQueue and
\* isOnline = navigator.onLine; the runs of the old page are gone, the
\* persisted list is still there.
PageReload(online) ==
    /\ queue' = [queue EXCEPT !.isOnline = online, !.memory = <<>>, !.runs = <<>>,
                              !.op = "reload"]
    /\ UNCHANGED QueueRest

\* --------------------------------------------- AuthManager.isAuthenticated
\* const sessionDuration = 24 * 60 * 60 * 1000
sessionDuration == 86400000
\* Date.now() when the page loads: `now` counts from it, some days after the
\* epoch.
pageLoadTime == 2 * sessionDuration
Clock == pageLoadTime + now

\* The 'userSession' item: absent, the empty string, text JSON.parse rejects,
\* or the JSON text of a value.
NoItem == [kind |-> "absent"]
EmptyItem == [kind |-> "empty"]
UnparseableItem == [kind |-> "unparseable"]
JsonItem(value) == [kind |-> "json", value |-> value]
JsonNull == [type |-> "null"]
JsonNumber == [type |-> "number"]
SessionObject(loginTime) == [type |-> "object", loginTime |-> loginTime]
\* The loginTime property: missing, null, a string Date cannot parse, the ISO
\* string of a time, or a number of milliseconds.
MissingTime == [form |-> "missing", time |-> 0]
NullTime == [form |-> "null", time |-> 0]
MalformedTime == [form |-> "malformed", time |-> 0]
IsoTime(t) == [form |-> "iso", time |-> t]
NumberTime(t) == [form |-> "number", time |-> t]

\* new Date(x): undefined and an unparseable string give an Invalid Date,
\* null gives the epoch.
InvalidDate == [valid |-> FALSE, time |-> 0]
DateOf(loginTime) ==
    IF loginTime.form \in {"missing", "malformed"} THEN InvalidDate
    ELSE IF loginTime.form = "null" THEN [valid |-> TRUE, time |-> 0]
    ELSE [valid |-> TRUE, time |-> loginTime.time]

\* now - loginTime > sessionDuration: a comparison with NaN is false.
Expired(date, clock) == date.valid /\ clock - date.time > sessionDuration

\* AuthManager.isAuthenticated() on a stored item: the value returned,
\* whether logout() removed the item, whether the catch block ran.  A
\* property read on a number gives undefined; on null it throws.
IsAuthenticated(item, clock) ==
    IF item.kind \in {"absent", "empty"}
    THEN [result |-> FALSE, removed |-> FALSE, caught |-> FALSE]
    ELSE IF item.kind = "unparseable" \/ item.value.type = "null"
    THEN [result |-> FALSE, removed |-> FALSE, caught |-> TRUE]
    ELSE LET loginTime == IF item.value.type = "object"
                          THEN item.value.loginTime ELSE MissingTime
         IN  IF Expired(DateOf(loginTime), clock)
             THEN [result |-> FALSE, removed |-> TRUE, caught |-> FALSE]
             ELSE [result |-> TRUE, removed |-> FALSE, caught |-> FALSE]

NoAmOp == [name |-> "none", item |-> NoItem, at |-> 0, result |-> FALSE,
           redirected |-> FALSE]
AmStart == [item |-> NoItem, op |-> NoAmOp]
AmRest == <<storage, hasCache, dep, zoho, bak, memoryCache, cacheStore, now, listeners,
            subs, microtasks, written, delivered, last, cacheLog, api, auth, rt, sec,
            val, deb, sess, queue>>

\* localStorage.setItem('userSession', ...) by a login page, or any other
\* writer of the item.
SessionStored(item) ==
    /\ am' = [item |-> item, op |-> NoAmOp]
    /\ UNCHANGED AmRest

\* AuthManager.isAuthenticated()
IsAuthenticatedCall ==
    LET r == IsAuthenticated(am.item, Clock)
    IN  /\ am' = [item |-> IF r.removed THEN NoItem ELSE am.item,
                  op |-> [name |-> "isAuthenticated", item |-> am.item, at |-> Clock,
                          result |-> r.result, redirected |-> FALSE]]
        /\ UNCHANGED AmRest

\* AuthManager.init(): nothing on the login page; elsewhere a failed check
\* redirects to the login page.
AuthManagerInit(onLoginPage) ==
    LET r == IsAuthenticated(am.item, Clock)
    IN  /\ am' = IF onLoginPage THEN [am EXCEPT !.op = [NoAmOp EXCEPT !.name = "skipped"]]
                 ELSE [item |-> IF r.removed THEN NoItem ELSE am.item,
                       op |-> [name |-> "init", item |-> am.item, at |-> Clock,
                               result |-> r.result, redirected |-> ~r.result]]
        /\ UNCHANGED AmRest

\* ------------------------------------------------------ deployment-firebase
\* const maxInitAttempts = 10
maxInitAttempts == 10

\* The hosted SDK as the page has it: not loaded (typeof firebase is
\* 'undefined'), loaded without its auth or firestore part (firebase.auth()
\* throws), or complete.
SdkStates == {"absent", "partial", "ready"}

DepStart ==
    [loaded |-> FALSE,          \* the script has run
     sdk |-> "absent",
     isInitialized |-> FALSE,
     initAttempts |-> 0,
     domPending |-> FALSE,      \* the DOMContentLoaded listener has not run yet
     timers |-> 0,              \* setTimeout(initializeFirebase, 1000) pending
     calls |-> <<>>,            \* initializeFirebase calls suspended at an await
     external |-> 0,            \* DeploymentFirebase.initialize calls by pages
     completions |-> 0,         \* how often the body ran to `isInitialized = true`
     authListeners |-> 0,       \* auth.onAuthStateChanged registrations
     returned |-> "none"]       \* what the last call returned, if it has
DepRest == <<storage, hasCache, am, zoho, bak, memoryCache, cacheStore, now, listeners,
             subs, microtasks, written, delivered, last, cacheLog, api, auth, rt, sec,
             val, deb, sess, queue>>

\* if (initAttempts < maxInitAttempts) setTimeout(initializeFirebase, 1000)
RetryAllowed(attempts) == attempts < maxInitAttempts

\* initializeFirebase() up to its first await or its return, on the fields d.
InitializeFirebase(d) ==
    IF d.isInitialized THEN [d EXCEPT !.returned = "true"]
    ELSE LET d1 == [d EXCEPT !.initAttempts = @ + 1]
         IN  IF d.sdk = "absent" THEN [d1 EXCEPT !.returned = "false"]
             ELSE IF d.sdk = "partial"
             THEN [d1 EXCEPT !.returned = "false",
                             !.timers = IF RetryAllowed(d1.initAttempts)
                                        THEN @ + 1 ELSE @]
             ELSE [d1 EXCEPT !.returned = "pending",
                             !.calls = Append(@, "local")]

\* The script runs: it registers initializeFirebase for DOMContentLoaded or
\* calls it, by document.readyState, and then calls it once more.
ScriptLoads(readyStateLoading) ==
    /\ ~dep.loaded
    /\ LET d0 == [dep EXCEPT !.loaded = TRUE]
           d1 == IF readyStateLoading THEN [d0 EXCEPT !.domPending = TRUE]
                 ELSE InitializeFirebase(d0)
       IN  dep' = InitializeFirebase(d1)
    /\ UNCHANGED DepRest

\* DOMContentLoaded
DomContentLoaded ==
    /\ dep.domPending
    /\ dep' = InitializeFirebase([dep EXCEPT !.domPending = FALSE])
    /\ UNCHANGED DepRest

\* A retry timer fires.
InitRetryFires ==
    /\ dep.timers > 0
    /\ dep' = InitializeFirebase([dep EXCEPT !.timers = @ - 1])
    /\ UNCHANGED DepRest

\* window.DeploymentFirebase.initialize() called by a page.
PageInitializes ==
    /\ dep.loaded
    /\ dep.external < MaxInitCalls
    /\ dep' = InitializeFirebase([dep EXCEPT !.external = @ + 1])
    /\ UNCHANGED DepRest

\* A script tag of the SDK finishes loading.
SdkLoads(state) ==
    /\ \/ dep.sdk = "absent" /\ state \in {"partial", "ready"}
       \/ dep.sdk = "partial" /\ state = "ready"
    /\ dep' = [dep EXCEPT !.sdk = state]
    /\ UNCHANGED DepRest

\* The sequence without its i-th element.
DropAt(seq, i) == [j \in 1..(Len(seq) - 1) |-> IF j < i THEN seq[j] ELSE seq[j + 1]]

\* auth.setPersistence settles for the i-th suspended call.  LOCAL rejected:
\* SESSION is awaited.  Otherwise the rest of the body runs: Firestore is
\* configured (errors caught), the services are exposed, the auth-state
\* listener is registered and isInitialized is set.
PersistenceSettles(i, resolved) ==
    /\ i \in 1..Len(dep.calls)
    /\ dep' = IF dep.calls[i] = "local" /\ ~resolved
              THEN [dep EXCEPT !.calls[i] = "session"]
              ELSE [dep EXCEPT !.calls = DropAt(@, i),
                               !.authListeners = @ + 1,
                               !.completions = @ + 1,
                               !.isInitialized = TRUE,
                               !.returned = "true"]
    /\ UNCHANGED DepRest

\* ------------------------------------------------------------- ZohoBooksAPI
\* A token field that is undefined or null.
NoToken == "undefined"

\* Nothing called yet.  refreshed: a refreshAccessToken call has succeeded
\* and logout() has not been called since.
NoZohoOp == [name |-> "none", threw |-> FALSE, returned |-> NoToken]
ZohoStart == [accessToken |-> NoToken,
              refreshToken |-> NoToken,
              tokenExpiry |-> {},       \* the time, when the field is set
              stored |-> {},            \* the parsed 'zoho_tokens' item, when stored
              refreshed |-> FALSE,
              op |-> NoZohoOp]
ZohoRest == <<storage, hasCache, am, dep, bak, memoryCache, cacheStore, listeners,
              subs, microtasks, written, delivered, last, cacheLog, api, auth, rt, sec,
              val, deb, sess, queue>>

\* saveTokens(tokens) on the fields z.  JSON.stringify leaves out a property
\* whose value is undefined, which reads back as undefined.
SaveTokens(z, tokens) ==
    LET tokenData == [access_token |-> tokens.access_token,
                      refresh_token |-> tokens.refresh_token,
                      expires_at |-> now + (tokens.expires_in * 1000)]
    IN  [z EXCEPT !.stored = {tokenData},
                  !.accessToken = tokenData.access_token,
                  !.refreshToken = tokenData.refresh_token,
                  !.tokenExpiry = {tokenData.expires_at}]

\* isTokenValid()
IsTokenValid(z) ==
    /\ z.accessToken # NoToken
    /\ \E expiry \in z.tokenExpiry : now < expiry

\* isAuthenticated()
ZohoIsAuthenticated(z) == IsTokenValid(z) \/ z.refreshToken # NoToken

\* refreshAccessToken() on the fields z: throws without a refresh token or
\* when the response is not ok; otherwise saves the tokens of the response.
RefreshAccessToken(z, name, ok, tokens) ==
    IF z.refreshToken = NoToken \/ ~ok
    THEN [z EXCEPT !.op = [NoZohoOp EXCEPT !.name = name, !.threw = TRUE]]
    ELSE [SaveTokens(z, tokens) EXCEPT
            !.refreshed = TRUE,
            !.op = [NoZohoOp EXCEPT !.name = name, !.returned = tokens.access_token]]

\* zohoBooks.refreshAccessToken()
RefreshAccessTokenCall(ok, tokens) ==
    /\ zoho' = RefreshAccessToken(zoho, "refreshAccessToken", ok, tokens)
    /\ UNCHANGED <<now, ZohoRest>>

\* zohoBooks.getValidToken()
GetValidTokenCall(ok, tokens) ==
    /\ zoho' = IF IsTokenValid(zoho)
               THEN [zoho EXCEPT !.op = [NoZohoOp EXCEPT !.name = "getValidToken",
                                            !.returned = zoho.accessToken]]
               ELSE RefreshAccessToken(zoho, "getValidToken", ok, tokens)
    /\ UNCHANGED <<now, ZohoRest>>

\* zohoBooks.exchangeCodeForToken(code)
ExchangeCodeForToken(ok, tokens) ==
    /\ zoho' = IF ~ok
               THEN [zoho EXCEPT !.op = [NoZohoOp EXCEPT !.name = "exchange",
                                            !.threw = TRUE]]
               ELSE [SaveTokens(zoho, tokens) EXCEPT
                       !.op = [NoZohoOp EXCEPT !.name = "exchange",
                                  !.returned = tokens.access_token]]
    /\ UNCHANGED <<now, ZohoRest>>

\* zohoBooks.logout()
ZohoLogout ==
    /\ zoho' = [ZohoStart EXCEPT !.op = [NoZohoOp EXCEPT !.name = "logout"]]
    /\ UNCHANGED <<now, ZohoRest>>

\* The page is loaded anew: the constructor runs loadTokens().
ZohoPageLoad ==
    /\ zoho' = IF zoho.stored = {} THEN [ZohoStart EXCEPT !.refreshed = zoho.refreshed]
               ELSE LET parsed == CHOOSE t \in zoho.stored : TRUE
                    IN  [zoho EXCEPT !.accessToken = parsed.access_token,
                                     !.refreshToken = parsed.refresh_token,
                                     !.tokenExpiry = {parsed.expires_at},
                                     !.op = NoZohoOp]
    /\ UNCHANGED <<now, ZohoRest>>

\* Time passes: the lifetime of an access token.
ZohoWait(expires_in) ==
    /\ now < MaxZohoWaits * expires_in * 1000
    /\ now' = now + (expires_in * 1000)
    /\ zoho' = [zoho EXCEPT !.op = NoZohoOp]
    /\ UNCHANGED ZohoRest

\* ------------------------------------------------------------ BackupManager
\* this.maxBackups = 10
maxBackups == 10

\* The 'backup_<Date.now()>' items of localStorage: the time in the key and
\* the orders the backup holds.  One key holds one item: a backup made in the
\* same millisecond as another replaces it.
NoBakOp == [name |-> "none", threw |-> FALSE, at |-> 0, data |-> <<>>, before |-> {}]
BakStart == [entries |-> {}, op |-> NoBakOp]
BakRest == <<hasCache, am, dep, zoho, memoryCache, cacheStore, listeners, subs,
             microtasks, written, delivered, last, cacheLog, api, auth, rt, sec, val,
             deb, sess, queue>>

\* localStorage.setItem('backup_' + t, ...)
PutBackup(entries, t, data) ==
    {e \in entries : e.t # t} \cup {[t |-> t, data |-> data]}

\* The place of an entry in the keys sorted by the comparator reversed
\* (timestampA - timestampB).
PlaceOldestFirst(entries, e) == Cardinality({f \in entries : f.t < e.t})

\* The place, from 0, of an entry in backupKeys: the keys sorted by
\* timestampB - timestampA, the latest first.
Place(entries, e) == Cardinality({f \in entries : f.t > e.t})

\* cleanOldBackups(): backupKeys.slice(maxBackups) is removed.
CleanOldBackups(entries) ==
    IF Cardinality(entries) > maxBackups
    THEN {e \in entries : Place(entries, e) < maxBackups}
    ELSE entries

\* createBackup() on the backups b and the stored orders: JSON.parse throws
\* on a corrupted 'orders' item and nothing is stored; otherwise the backup
\* is stored under the key of the current millisecond and old ones are cleaned.
CreateBackup(b, orders, name) ==
    IF orders.kind = "text"
    THEN [b EXCEPT !.op = [NoBakOp EXCEPT !.name = name, !.threw = TRUE, !.at = now]]
    ELSE LET data == IF orders.kind = "array" THEN orders.items ELSE <<>>
         IN  [entries |-> CleanOldBackups(PutBackup(b.entries, now, data)),
              op |-> [name |-> name, threw |-> FALSE, at |-> now, data |-> data,
                      before |-> b.entries]]

\* BackupManager.createBackup(): the auto-backup timer, the beforeunload
\* listener, or a page.
CreateBackupCall ==
    /\ bak' = CreateBackup(bak, storage["orders"], "createBackup")
    /\ UNCHANGED <<storage, now, BakRest>>

\* BackupManager.restoreFromBackup('backup_' + t): throws when the key holds
\* nothing or the safety backup fails; otherwise the backup's orders are
\* written back.
RestoreFromBackup(t) ==
    LET found == {e \in bak.entries : e.t = t}
        b1 == CreateBackup(bak, storage["orders"], "restore")
    IN  /\ IF found = {}
           THEN /\ bak' = [bak EXCEPT !.op = [NoBakOp EXCEPT !.name = "restore",
                                                 !.threw = TRUE, !.at = now]]
                /\ storage' = storage
           ELSE /\ bak' = b1
                /\ storage' = IF b1.op.threw THEN storage
                              ELSE [storage EXCEPT !["orders"] =
                                      ArrayValue((CHOOSE e \in found : TRUE).data)]
        /\ UNCHANGED <<now, BakRest>>

\* The orders change between backups.
OrdersChange(items) ==
    /\ storage["orders"] # ArrayValue(items)
    /\ storage' = [storage EXCEPT !["orders"] = ArrayValue(items)]
    /\ bak' = [bak EXCEPT !.op = NoBakOp]
    /\ UNCHANGED <<now, BakRest>>

\* A millisecond passes.  Only the order of the timestamps matters: time is
\* followed from one backup to the next.
BakTick ==
    /\ now < MaxBakTicks
    /\ \E e \in bak.entries : e.t = now
    /\ now' = now + 1
    /\ bak' = [bak EXCEPT !.op = NoBakOp]
    /\ UNCHANGED <<storage, BakRest>>

\* ------------------------------------------------------------ specification
\* The page as loaded: every collection key is absent or holds a text that
\* is not JSON, nothing is cached, nothing was called.
InitPage ==
    /\ storage \in [Colls -> {Absent, BadText}]
    /\ memoryCache = <<>>
    /\ cacheStore = {}
    /\ now = 0
    /\ listeners = <<>>
    /\ subs = <<>>
    /\ microtasks = <<>>
    /\ written = [c \in Colls |-> [single |-> TRUE, ids |-> {}]]
    /\ delivered = NoResults
    /\ last = NoCall
    /\ cacheLog = {}
    /\ api = ApiIdle
    /\ auth = AuthStart
    /\ rt = RtStart
    /\ sec = SecStart
    /\ val = NoValidation
    /\ deb = DebStart
    /\ sess = SessStart
    /\ queue = QueueStart
    /\ am = AmStart
    /\ dep = DepStart
    /\ zoho = ZohoStart
    /\ bak = BakStart

Init ==
    /\ InitPage
    /\ hasCache = TRUE

\* The document store: get, set and save with every object as data.
Next ==
    \/ \E name \in Colls, id \in Ids : DocGet(name, id)
    \/ \E name \in Colls, id \in Ids, data \in StoreObjects, merge \in BOOLEAN :
          DocSet(name, id, data, merge)
    \/ \E key \in Colls, data \in StoreObjects : FirebaseSave(key, FALSE, data, <<>>)
    \/ \E key \in Colls, arr \in ArraysUpTo(IdObjects, MaxArr) :
          FirebaseSave(key, TRUE, EmptyObj, arr)

Spec == Init /\ [][Next]_vars

\* The query surface: writes of whole records, then orderBy on them.
Limits == {0, 1}

QueryIds == Ids \cup {"o3"}

QueryNext ==
    \/ \E name \in Colls, id \in QueryIds, data \in QuantityObjects :
          DocSet(name, id, data, FALSE)
    \/ \E key \in Colls, id \in QueryIds, data \in QuantityObjects :
          FirebaseSave(key, FALSE, ObjectAssign([id |-> id], data), <<>>)
    \/ \E name \in Colls, field \in SortFields, dir \in Dirs, limit \in Limits :
          OnSnapshot(name, field, dir, limit)
    \/ \E name \in Colls, field \in SortFields, dir \in Dirs, limit \in Limits :
          OrderByGet(name, field, dir, limit)

QuerySpec == Init /\ [][QueryNext]_vars

\* The pages' use of the shim: subscribe on a collection that is written
\* through doc().set and FirebaseData.save, with and without a cache manager.
SubOpts ==
    {[path |-> "orders", callback |-> "cb"],
     [path |-> "orders", callback |-> "cb", orderBy |-> "quantity", limit |-> 1]}

\* A promise reaction runs before the next event is handled.
Idle == microtasks = <<>>

SubInit ==
    /\ InitPage
    /\ hasCache \in BOOLEAN

SubNext ==
    \/ Idle /\ \E name \in Colls, id \in Ids :
          DocSet(name, id, [quantity |-> 3], FALSE)
    \/ Idle /\ \E key \in Colls, id \in Ids :
          FirebaseSave(key, FALSE, [id |-> id, quantity |-> 5], <<>>)
    \/ Idle /\ \E opts \in SubOpts : Subscribe(opts)
    \/ RunMicrotask
    \/ Idle /\ Tick

SubSpec == SubInit /\ [][SubNext]_vars

\* The key function on its own: every options literal of up to MaxPairs
\* distinct names.
KeyNames == {"a", "b", "limit"}
KeyValues == {1, 2}
KeyPairs == {[k |-> n, v |-> x] : n \in KeyNames, x \in KeyValues}

Literals ==
    {l \in ArraysUpTo(KeyPairs, MaxPairs) :
        \A i, j \in 1..Len(l) : i # j => l[i].k # l[j].k}

KeyNext ==
    \E collection \in Colls, pairs \in Literals : GenerateKeyCall(collection, pairs)

KeySpec == Init /\ [][KeyNext]_vars

\* The cache manager called directly, on the keys of two collections of
\* which one name begins with the other.
CacheColls == {"orders", "ordersArchive"}
CacheKeys ==
    {GenerateKey("orders", EmptyObj), GenerateKey("orders", [limit |-> 1]),
     GenerateKey("ordersArchive", EmptyObj)}
CacheData == {<<[id |-> "o1"]>>, <<[id |-> "o2"]>>}
CacheTTLs == {defaultCacheTTL}

CacheNext ==
    \/ \E key \in CacheKeys, data \in CacheData, ttl \in CacheTTLs :
          CacheSetCall(key, data, ttl)
    \/ \E key \in CacheKeys : CacheGetCall(key)
    \/ \E key \in CacheKeys : CacheInvalidateCall(key)
    \/ \E collection \in CacheColls : InvalidateCollectionCall(collection)
    \/ CleanExpiredEntries
    \/ Tick

\* The cache runs start on a page whose collection keys are absent.
CacheInit ==
    /\ Init
    /\ \A c \in Colls : storage[c] = Absent

CacheSpec == CacheInit /\ [][CacheNext]_vars

\* The memory tier filled past its capacity: the keys orders?limit=1, 2, ...
\* are set one after another, and the first HotKeys of them are set and read
\* again at any moment.
EvictKey(n) == GenerateKey("orders", [limit |-> n])
HotKeys == 2

EvictNext ==
    \/ \E n \in 1..MaxCacheKeys :
          /\ n <= Cardinality(cacheStore) + 1
          /\ n <= HotKeys \/ n = Cardinality(cacheStore) + 1
          /\ CacheSetCall(EvictKey(n), <<>>, defaultCacheTTL)
    \/ \E n \in 1..HotKeys : CacheGetCall(EvictKey(n))

EvictSpec == CacheInit /\ [][EvictNext]_vars

\* Calls of set and save on one collection issued without awaiting the
\* promises of the earlier ones.
ConcCalls ==
    {[op |-> "set", id |-> i, data |-> d, arr |-> <<>>] :
        i \in Ids, d \in QuantityObjects}
    \cup {[op |-> "save", id |-> i, data |-> [id |-> i, quantity |-> q], arr |-> <<>>] :
        i \in Ids, q \in Quantities}
    \cup {[op |-> "saveArray", id |-> "", data |-> EmptyObj, arr |-> a] :
        a \in {<<>>, <<[id |-> "o1", quantity |-> 3]>>}}

ConcNext ==
    \/ \E name \in Colls, c \in ConcCalls : IssueCall(name, c)
    \/ SettleCall

ConcSpec == CacheInit /\ [][ConcNext]_vars

\* The API service: one executeRequest call after another.  Every await of
\* the call settles: fetch by the abort timer at the latest, the delay by its
\* timer, the read of the body when the connection delivers it or fails.
ApiNext ==
    \/ ExecuteRequest
    \/ \E outcome \in FetchOutcomes : FetchSettles(outcome)
    \/ \E outcome \in BodyOutcomes : BodySettles(outcome)
    \/ DelayElapsed

ApiSpec ==
    /\ CacheInit
    /\ [][ApiNext]_vars
    /\ WF_vars(\E outcome \in FetchOutcomes : FetchSettles(outcome))
    /\ WF_vars(\E outcome \in BodyOutcomes : BodySettles(outcome))
    /\ WF_vars(DelayElapsed)

\* The authentication manager: sign-in calls for two addresses.
AuthNext ==
    \/ \E email \in Emails, initOk \in BOOLEAN, outcome \in SignInOutcomes :
          Authenticate(email, initOk, outcome)
    \/ \E email \in Emails : LockoutExpires(email)

AuthSpec == CacheInit /\ [][AuthNext]_vars

\* The pages' subscriptions to the hosted store: FirebaseData.subscribe with
\* the collection as key, and the data loader.
RtNext ==
    \/ \E withSubscribe \in BOOLEAN : FirebaseInit(withSubscribe)
    \/ \E path \in RtPaths : FirebaseDataSubscribe(path, path)
    \/ FirebaseDataClear
    \/ \E path \in RtPaths \cup {NoPath} : DataLoaderSubscribe(path)
    \/ \E path \in RtPaths : RetryFires(path)
    \/ \E path \in RtPaths : ReturnedUnsubscribe(path)
    \/ \E path \in RtPaths : DataLoaderUnsubscribe(path)
    \/ DataLoaderUnsubscribeAll
    \/ \E path \in RtPaths : DataLoaderClearCache(path)
    \/ \E l \in ListenerIds : SnapshotArrives(l)

RtSpec == CacheInit /\ [][RtNext]_vars

\* ---------------------------------------------------------------- claims

\* C1: after any sequence of doc(id).set(data) and FirebaseData.save calls on
\* a collection that started empty, no two records stored in the collection
\* have the same id.
C1_UniqueIds ==
    \A name \in Colls :
        \A i, j \in 1..Len(storage[name].items) :
            i # j => IdOf(storage[name].items[i]) # IdOf(storage[name].items[j])

\* C2: once doc(id).set(data) has completed, doc(id).get() returns exists =
\* true and a record that holds every written field with the written value,
\* and, when merge was not requested, no field besides the written ones and
\* the id.
C2_SetThenGet ==
    (last.op = "set" /\ ~last.threw) =>
        LET r == Lookup(storage, last.name, last.id)
        IN  /\ r.exists
            /\ \A f \in DOMAIN last.data :
                  f \in DOMAIN r.found /\ r.found[f] = last.data[f]
            /\ ~last.merge => DOMAIN r.found = (DOMAIN last.data) \cup {"id"}

\* C3: when a record with the id exists with fields F, set(data, {merge:
\* true}) leaves a record that holds every field of data and every field of F
\* that data does not name, with its old value; without merge the record is
\* replaced by the written one.  Stated for data that carries no other id
\* than the document's, so that the record is found under the id again.
C3_MergeKeepsFields ==
    (last.op = "set" /\ ~last.threw /\ last.prev # <<>>
        /\ IdOf(ObjectAssign([id |-> last.id], last.data)) = last.id) =>
        LET r == Lookup(storage, last.name, last.id)
            old == last.prev[1]
        IN  IF last.merge
            THEN /\ r.exists
                 /\ \A f \in DOMAIN last.data :
                       f \in DOMAIN r.found /\ r.found[f] = last.data[f]
                 /\ \A f \in (DOMAIN old) \ (DOMAIN last.data) :
                       f \in DOMAIN r.found /\ r.found[f] = old[f]
            ELSE r.exists /\ r.found = ObjectAssign([id |-> last.id], last.data)

\* C4: after N single-record writes (set or save) with N pairwise distinct
\* ids into an empty collection the collection holds exactly N records, and
\* a write to an id that is already present leaves the count unchanged.
C4_CountIsDistinctIds ==
    \A name \in Colls :
        /\ written[name].single =>
              Len(storage[name].items) = Cardinality(written[name].ids)
        /\ (last.op \in {"set", "save"} /\ last.name = name /\ ~last.threw
                /\ last.prev # <<>>) =>
              Len(storage[name].items) = last.before

\* C10: doc(id).get() never throws, whatever is stored under the key, and
\* when no stored record has the id it returns exists = false and data()
\* equal to the empty object; exists = true is returned only with a stored
\* record of that id.
C10_GetNeverFails ==
    last.op = "get" =>
        /\ ~last.threw
        /\ LET list == storage[last.name].items
               present == \E i \in 1..Len(list) : IdOf(list[i]) = last.id
           IN  /\ ~present => (~last.exists /\ last.found = EmptyObj)
               /\ present => (last.exists /\ IdOf(last.found) = last.id)

\* A get of an id that is not stored, on a key that held unparseable text:
\* after the get the key still holds the text.
C10_Witness ==
    /\ last.op = "get"
    /\ ~last.exists
    /\ storage[last.name].kind = "text"

\* The last call was an orderBy query (onSnapshot or get).
LastIsQuery == last.op \in {"onSnapshot", "orderByGet"}

Reverse(seq) == [i \in 1..Len(seq) |-> seq[Len(seq) + 1 - i]]

\* The field's values in the list are all defined and pairwise distinct.
DistinctValues(list, field) ==
    /\ \A i \in 1..Len(list) : field \in DOMAIN list[i]
    /\ \A i, j \in 1..Len(list) : i # j => list[i][field] # list[j][field]

\* a comes no later than b in the requested direction.
InOrder(a, b, field, dir) ==
    IF dir = "desc" THEN a[field] >= b[field] ELSE a[field] <= b[field]

\* C5: orderBy(field, dir).limit(n) followed by onSnapshot or get delivers at
\* most n records, the first n of the sorted sequence.
C5_LimitTruncates ==
    (LastIsQuery /\ last.limit > 0) =>
        /\ Len(last.docs) <= last.limit
        /\ \E sorted \in SortOutcomes(last.src, last.field, last.dir) :
              /\ Len(last.docs) <= Len(sorted)
              /\ last.docs = SubSeq(sorted, 1, Len(last.docs))
              /\ Len(last.docs) = last.limit \/ Len(last.docs) = Len(sorted)

\* C6: each onSnapshot(callback) call has invoked its callback exactly once,
\* with the collection contents at the moment of the call, and no later set
\* or save on the collection invokes it again.
C6_OneEmission ==
    /\ \A i \in 1..Len(listeners) : listeners[i].calls = 1
    /\ (last.op = "onSnapshot" /\ last.limit = 0) =>
          /\ last.src = ReadCollection(storage, last.name).list
          /\ last.docs \in SortOutcomes(last.src, last.field, last.dir)

\* A set or save made after an onSnapshot call on the collection.
C6_Witness ==
    /\ last.op \in {"set", "save"}
    /\ \E i \in 1..Len(listeners) : listeners[i].name = last.name

\* C7: one call of FirebaseData.subscribe(opts) causes opts.callback (and
\* opts.onChange) to be invoked at most once for that call.
C7_CallbackAtMostOnce ==
    \A i \in 1..Len(subs) : subs[i].calls <= 1

\* C8: the sequence orderBy(field, dir) delivers is a permutation of the
\* stored collection ordered by the field in the requested direction, and
\* records with equal values keep the relative order of the stored array.
\* Stated for collections in which every record carries the field.
C8_StableSort ==
    (LastIsQuery /\ \A i \in 1..Len(last.src) : last.field \in DOMAIN last.src[i]) =>
        \E p \in IndexPermutations(Len(last.src)) :
            /\ last.docs = [i \in 1..Len(last.src) |-> last.src[p[i]]]
            /\ \A i, j \in 1..Len(last.src) :
                  i < j =>
                    /\ InOrder(last.src[p[i]], last.src[p[j]], last.field, last.dir)
                    /\ (last.src[p[i]][last.field] = last.src[p[j]][last.field]
                            => p[i] < p[j])

\* C9: when the field's values are pairwise distinct, the sequence delivered
\* by orderBy(field, 'desc') is the reverse of the one delivered by
\* orderBy(field, 'asc') on the same stored data.
C9_DescReversesAsc ==
    (/\ delivered["asc"].set
     /\ delivered["desc"].set
     /\ delivered["asc"].name = delivered["desc"].name
     /\ delivered["asc"].field = delivered["desc"].field
     /\ delivered["asc"].src = delivered["desc"].src
     /\ DistinctValues(delivered["asc"].src, delivered["asc"].field)) =>
        delivered["desc"].docs = Reverse(delivered["asc"].docs)

\* Both directions were delivered on two stored records of distinct values.
C9_Witness ==
    /\ delivered["asc"].set
    /\ delivered["desc"].set
    /\ delivered["asc"].src = delivered["desc"].src
    /\ Len(delivered["asc"].src) >= 2
    /\ DistinctValues(delivered["asc"].src, delivered["asc"].field)

\* C11: after CacheManager.set(key, data, ttl) at time t, with no later set
\* or invalidation of the key, get(key) returns data at every time earlier
\* than t + ttl and null at every time from t + ttl on, and a get that finds
\* the entry expired leaves it in neither tier.
C11_TtlExpiry ==
    last.op = "cacheGet" =>
        \A e \in cacheLog :
            e.key = last.key =>
                IF last.at < e.t + e.ttl
                THEN last.hit /\ last.docs = e.data
                ELSE /\ ~last.hit
                     /\ ~MemHas(memoryCache, last.key)
                     /\ ~StoreHas(cacheStore, last.key)

\* A get made at the very instant t + ttl of a set that is still the last
\* one of its key.
C11_Witness ==
    /\ last.op = "cacheGet"
    /\ \E e \in cacheLog : e.key = last.key /\ last.at = e.t + e.ttl

\* C12: generateKey(collection, options) depends only on the collection name
\* and the set of (name, value) pairs of options: the literal written in any
\* other order of its pairs yields the same key.
C12_KeyOrderIndependent ==
    last.op = "generateKey" =>
        \A p \in IndexPermutations(Len(last.src)) :
            GenerateKeyOfLiteral(last.name, [i \in 1..Len(last.src) |-> last.src[p[i]]])
                = last.key

\* generateKey was called with a literal whose names were not written in
\* sorted order.
C12_Witness ==
    /\ last.op = "generateKey"
    /\ Len(last.src) >= 2
    /\ Rank(last.src[1].k) > Rank(last.src[2].k)

\* C13: invalidateCollection(c) removes from both tiers every entry whose key
\* starts with c and leaves the entries of every other collection unchanged.
C13_InvalidateOnlyOwn ==
    last.op = "invalidateCollection" =>
        /\ \A i \in 1..Len(memoryCache) : ~StartsWith(memoryCache[i].key, last.name)
        /\ \A e \in cacheStore : ~StartsWith(e.key, last.name)
        /\ SelectSeq(last.mem, LAMBDA e : Head(e.key) # last.name)
              = SelectSeq(memoryCache, LAMBDA e : Head(e.key) # last.name)
        /\ {e \in last.cs : Head(e.key) # last.name}
              = {e \in cacheStore : Head(e.key) # last.name}

\* seq with the entries equal to x left out.
Without(seq, x) == SelectSeq(seq, LAMBDA y : y # x)

IsSuffix(p, t) == Len(p) <= Len(t) /\ SubSeq(t, Len(t) - Len(p) + 1, Len(t)) = p

C15_WriteInvalidates ==
    (last.op \in {"set", "save", "saveArray"} /\ ~last.threw) =>
        /\ \A i \in 1..Len(memoryCache) : Head(memoryCache[i].key) # last.name
        /\ \A e \in cacheStore : Head(e.key) # last.name

\* C16: when the value stored under a collection key is not parseable as
\* JSON, the next read treats the collection as empty, the next set or save
\* overwrites the key with a JSON array holding only the written record(s),
\* and the call that met the corrupted value reports a warning.
C16_CorruptionHealsAndWarns ==
    last.corrupt =>
        /\ ~last.threw
        /\ last.op = "get" => (~last.exists /\ last.found = EmptyObj)
        /\ last.op = "set" =>
              storage[last.name] = ArrayValue(<<ObjectAssign([id |-> last.id], last.data)>>)
        /\ last.op = "save" => storage[last.name] = ArrayValue(<<last.data>>)
        /\ last.op = "saveArray" => storage[last.name] = ArrayValue(last.src)
        /\ last.op \in {"get", "set", "save"} => last.warned

\* The list left by executing the calls one after another, each to its end.
RECURSIVE ApplyCalls(_, _)
ApplyCalls(list, calls) ==
    IF calls = <<>> THEN list
    ELSE ApplyCalls(CallResult(list, Head(calls)), Tail(calls))

\* C17: set and save calls issued on one collection without awaiting their
\* promises leave, once all have settled, the collection that executing them
\* one after another in issue order produces: no read-modify-write
\* interleaves with another and no write is lost.
C17_CallsSerialize ==
    (last.op \in {"issue", "settle"} /\ microtasks = <<>>) =>
        storage[last.name] = ArrayValue(ApplyCalls(<<>>, last.src))

\* Two calls that write the same id with different data are in flight
\* together, neither promise settled.
C17_Witness ==
    /\ Len(microtasks) >= 2
    /\ microtasks[1].call.op = "set"
    /\ microtasks[2].call.op = "save"
    /\ microtasks[1].call.id = microtasks[2].call.id

\* What holds of an executeRequest call at every moment: at most
\* retryAttempts fetches; a return right after the first attempt that did
\* not fail; the k-th wait is retryDelay * k, whatever the error was, and
\* follows every failure but the last; a throw only after retryAttempts
\* failures, of the last error caught.
ApiCallInBounds ==
    /\ api.fetches <= retryAttempts
    /\ Len(api.errors) <= retryAttempts
    /\ api.waits = [k \in 1..Len(api.waits) |-> retryDelay * k]
    /\ api.pc \in {"fetching", "reading", "returned"} =>
          /\ api.fetches = Len(api.errors) + 1
          /\ Len(api.waits) = Len(api.errors)
    /\ api.pc = "waiting" =>
          /\ api.fetches = Len(api.errors)
          /\ Len(api.waits) = Len(api.errors) - 1
    /\ api.pc = "threw" =>
          /\ api.fetches = retryAttempts
          /\ Len(api.errors) = retryAttempts
          /\ Len(api.waits) = retryAttempts - 1
          /\ api.thrown = api.errors[retryAttempts]

C19_FailureIsMapped ==
    auth.result.signInFailed =>
        /\ auth.result.kind = "resolved"
        /\ ~auth.result.success
        /\ LET error == auth.result.error
           IN  IF error.code \in DOMAIN ErrorMessages
               THEN auth.result.message = ErrorMessages[error.code]
               ELSE IF error.message \in DOMAIN ErrorMessages
               THEN auth.result.message = ErrorMessages[error.message]
               ELSE auth.result.message \in {FallbackMessage, GenericMessage}

\* The live listeners on a collection.
LiveOn(c) == {l \in ListenerIds : l.path = c /\ rt.active[l] > 0}

\* The listener is the one its collection's registry slot holds.
HeldForCollection(l) ==
    \/ l.reg = "rtSubs" /\ l.slot = l.path /\ rt.rtSubs[l.slot] = l.path
    \/ l.reg = "pathSub" /\ rt.pathSub[l.path]

\* C20: after any sequence of subscribe, unsubscribe and clear calls, every
\* collection has at most one live snapshot listener, that listener is the
\* one held in the registry under the collection's key, and after an
\* unsubscribe of the collection, or a clear, the collection has none.
C20_OneListenerPerKey ==
    \A c \in RtPaths :
        /\ \A l \in LiveOn(c) : rt.active[l] = 1
        /\ Cardinality(LiveOn(c)) <= 1
        /\ \A l \in LiveOn(c) : HeldForCollection(l)
        /\ (rt.op.name \in {"unsubscribe", "clearCache"} /\ rt.op.path = c) =>
              LiveOn(c) = {}
        /\ rt.op.name = "clear" => LiveOn(c) = {}

\* ------------------------------------------------------------------- C21
\* The rate limiter: checks, failed and successful attempts for two
\* identifiers, as the clock moves through more than one lockout.
RateNext ==
    \/ \E id \in Identifiers : CheckRateLimit(id)
    \/ \E id \in Identifiers, success \in BOOLEAN : RecordLoginAttempt(id, success)
    \/ Wait

RateSpec == CacheInit /\ [][RateNext]_vars

\* The failed attempts of id recorded in the preceding lockoutDuration.
FailedInWindow(id) ==
    Cardinality({i \in 1..Len(sec.failed[id]) : now - sec.failed[id][i] < lockoutDuration})

\* C21: checkRateLimit(id) answers allowed = true exactly while fewer than
\* maxLoginAttempts failed attempts for id were recorded in the preceding
\* lockoutDuration, and a recorded success leaves no attempt stored, so that
\* the check that follows is allowed.
C21_RateLimit ==
    /\ sec.op.name = "check" =>
          (sec.op.allowed <=> FailedInWindow(sec.op.id) < maxLoginAttempts)
    /\ (sec.op.name = "record" /\ sec.op.success) =>
          /\ sec.attempts[sec.op.id] = <<>>
          /\ ~LimitReached(RecentAttempts(sec.attempts[sec.op.id]))

\* C21 witness: a check is refused after five failed attempts inside the
\* window, while an older attempt of the same identifier has left it.
C21_Witness ==
    /\ sec.op.name = "check" /\ ~sec.op.allowed
    /\ FailedInWindow(sec.op.id) = maxLoginAttempts
    /\ Len(sec.failed[sec.op.id]) > maxLoginAttempts

\* ------------------------------------------------------------------- C22
\* What a subscribe call can create: the retry timers, the registries, the
\* stored return values, the kept lists and the listeners of the store.
RtCreated(r) ==
    <<r.retries, r.rtSubs, r.pathSub, r.subscriptions, r.closures, r.rtCache,
      r.pathData, r.active>>

\* C22: a DataLoader.subscribe call whose options carry no path throws at
\* the call site, and creates no subscription and no cache entry.
C22_MissingPathThrows ==
    [][(rt'.op.name = "loaderSubscribe" /\ rt'.op.path = NoPath) =>
          /\ rt'.op.threw
          /\ RtCreated(rt') = RtCreated(rt)
          /\ storage' = storage /\ cacheStore' = cacheStore
          /\ memoryCache' = memoryCache]_vars

\* ------------------------------------------------------------ C23, C24
\* Every sequence over S of length at most n.
RECURSIVE TextsUpTo(_, _)
TextsUpTo(S, n) ==
    IF n = 0 THEN {<<>>}
    ELSE LET shorter == TextsUpTo(S, n - 1)
         IN  shorter \cup {Append(t, c) : t \in shorter, c \in S}

\* The texts handed to validateInput: every short text of a letter, a digit,
\* '@', '.', a blank and '-', and the addresses of the scenario.
TextChars == {"a", "1", "@", ".", " ", "-"}
ScenarioTexts ==
    { <<"a", "@", "b", ".", "c", "o", "m">>,
      <<"n", "o", "t", "-", "a", "n", "-", "e", "m", "a", "i", "l">>,
      <<"a", "@", "b", ".", "c">>,
      <<" ", "a", "@", "b", ".", "c", " ">>,
      <<"I", "N", "V", "-", "2", "0", "2", "4", "-", "0", "0", "1">>,
      <<"+", "1", " ", "(", "2", "3", ")", " ", "4", "-", "5">> }
InputValues ==
    {StringValue(t) : t \in TextsUpTo(TextChars, MaxText) \cup ScenarioTexts}
    \cup {NumberValue(n) : n \in {0, 5, 12345}}
    \cup {NullValue, UndefinedValue}
FieldTypes == {"email", "phone", "name", "orderId", "invoiceId", "number", "string", "date"}
OptionMaps ==
    {EmptyObj, [required |-> TRUE], [min |-> 1, max |-> 5],
     [required |-> TRUE, minLength |-> 2, maxLength |-> 3]}

\* The passwords: a first unit, a run of one repeated unit and up to two
\* last units, of an uppercase letter, a lowercase letter, a digit, a
\* character of the special class and an underscore; 'Password1' and
\* 'Password1!'; and values that are not strings.
PasswordChars == {"P", "a", "1", "!", "_"}
Run(c, n) == [i \in 1..n |-> c]
Password1 == <<"P", "a", "s", "s", "w", "o", "r", "d", "1">>
PasswordTexts ==
    {h \o Run(c, n) \o t : h \in TextsUpTo(PasswordChars, 1), c \in PasswordChars,
                           n \in 0..MaxPad, t \in TextsUpTo(PasswordChars, 2)}
    \cup {Password1, Append(Password1, "!")}
PasswordInputs ==
    {StringValue(t) : t \in PasswordTexts}
    \cup {NumberValue(12345678), NullValue, UndefinedValue}

\* The orders: an object with any of a few values under each property, or
\* no object at all.
ObjectValue(fields) == [kind |-> "object", fields |-> fields]
OrderValues ==
    [customerName : {UndefinedValue, StringValue(<<"A", "l">>), StringValue(<<"A", "1">>)},
     email : {UndefinedValue, StringValue(<<"a", "@", "b", ".", "c">>), StringValue(<<"a", "@", "b">>)},
     mobile : {UndefinedValue, StringValue(<<"1", "2", "-", "3">>), NumberValue(123)},
     quantity : {UndefinedValue, NumberValue(5), NumberValue(2000), StringValue(<<"1", "2">>)},
     jnum : {UndefinedValue, NumberValue(7), StringValue(<<"a">>)}]
Orders == {ObjectValue(f) : f \in OrderValues} \cup {NullValue, UndefinedValue}

ValNext ==
    \/ /\ val.fn = "none"
       /\ \/ \E value \in InputValues, type \in FieldTypes, options \in OptionMaps :
                ValidateInputCall(value, type, options)
          \/ \E password \in PasswordInputs : ValidatePasswordCall(password)
          \/ \E orderData \in Orders : ValidateOrderCall(orderData)
    \/ ValidationForgotten

ValSpec == CacheInit /\ [][ValNext]_vars

\* C23: no validator call throws, whatever the value, the field type and
\* the options; each returns a result object, in which isValid is false
\* exactly when the errors list is not empty.
C23_ValidatorsNeverThrow ==
    val.fn # "none" =>
        /\ ~val.result.threw
        /\ ~val.result.isValid <=> val.result.errors # <<>>

\* A symbol: a character that is neither a letter, nor a digit, nor blank.
IsSymbol(c) == c \notin UpperCase \cup LowerCase \cup Digit \cup WhiteSpace

\* The five checks of a password text, in the order of their messages.
PasswordChecks(text) ==
    << Len(text) >= 8,
       SomeIn(text, UpperCase),
       SomeIn(text, LowerCase),
       SomeIn(text, Digit),
       \E i \in 1..Len(text) : IsSymbol(text[i]) >>

DebNext ==
    \/ \E w \in Wrappers, arg \in DebArgs : CallDebounced(w, arg)
    \/ \E k \in DebKeys : DebounceTimerFires(k)
    \/ DebounceTick

DebSpec == CacheInit /\ [][DebNext]_vars

\* C25: a burst of calls of a debounced function, each less than the delay
\* after the one before, makes the function run exactly once: not while the
\* burst goes on, and once the delay has passed since the burst's last call,
\* then with that call's arguments.
C25_DebounceOncePerBurst ==
    /\ \A f \in DebFuncs :
          /\ deb.burst[f].runs <= 1
          /\ (deb.burst[f].called /\ ~TimerDue
                /\ now >= deb.burst[f].at + debounceDelay) => deb.burst[f].runs = 1
    /\ deb.lastRun.set =>
          /\ deb.lastRun.at = deb.lastRun.callAt + debounceDelay
          /\ deb.lastRun.arg = deb.lastRun.callArg

\* ------------------------------------------------------------------- C26
\* The sweep among sets, corrupted entries and the clock, on a page whose
\* collection key is absent or holds a rejected text.
SweepKeys == {GenerateKey("orders", EmptyObj), GenerateKey("orders", [limit |-> 1])}
SweepData == {<<[id |-> "o1"]>>}

SweepNext ==
    \/ \E key \in SweepKeys, data \in SweepData, ttl \in CacheTTLs :
          CacheSetCall(key, data, ttl)
    \/ \E key \in SweepKeys, item \in CorruptItems : EntryCorrupted(key, item)
    \/ CleanExpiredEntries
    \/ Tick

SweepSpec == Init /\ [][SweepNext]_vars

\* A durable entry that CacheManager.set wrote and whose ttl has not elapsed.
Unexpired(e) == "timestamp" \in DOMAIN e.item /\ now < e.item.timestamp + e.item.ttl

\* C26: a run of cleanExpiredEntries removes from the durable tier every
\* entry whose ttl has elapsed or whose value does not parse as an entry,
\* and leaves the unexpired entries and every collection key as they were
\* (a step that leaves the clock alone and ends with a sweep as the last
\* call is a sweep).
C26_SweepRemovesStaleOnly ==
    [][(last'.op = "sweep" /\ now' = now) =>
          /\ cacheStore' = {e \in cacheStore : Unexpired(e)}
          /\ storage' = storage]_vars

\* C26 witness: after a sweep, an entry that was set and has expired is
\* gone (nothing but the sweep removes entries in these runs), an unexpired
\* one is still there, and the collection key holds a text.
C26_Witness ==
    /\ last.op = "sweep"
    /\ \E l \in cacheLog : now >= l.t + l.ttl /\ ~StoreHas(cacheStore, l.key)
    /\ \E e \in cacheStore : Unexpired(e)
    /\ \E c \in Colls : storage[c].kind # "absent"

\* ------------------------------------------------------------------- C27
SessNext ==
    \/ \E u \in Users : AuthLogin(u)
    \/ AuthStateChanged
    \/ AuthLogout
    \/ SimpleAuthSignOut
    \/ AuthManagerLogout
    \/ Tick

SessSpec == CacheInit /\ [][SessNext]_vars

\* C27: once an auth-state change has been reported, or a sign-out or logout
\* has completed, and the service has nothing left to report, 'userSession'
\* is present exactly when the service has a signed-in user, and then holds
\* that user's email as username and uid, a role and a login time.
C27_SessionMirrorsAuth ==
    (/\ sess.op \in {"authStateChanged", "Auth.logout", "SimpleAuth.signOut",
                     "AuthManager.logout"}
     /\ sess.events = <<>>) =>
        /\ sess.stored.present <=> sess.user # NoUser
        /\ sess.stored.present =>
              /\ sess.stored.username = sess.user.email
              /\ sess.stored.uid = sess.user.uid
              /\ sess.stored.role = "User"

\* ------------------------------------------------------------ C28, C29
QueueNext ==
    \/ GoesOffline
    \/ AddToQueue
    \/ GoesOnline
    \/ \E i \in 1..MaxRuns, ok \in BOOLEAN : QueuedRequestSettles(i, ok)
    \/ \E online \in BOOLEAN : PageReload(online)

QueueSpec == CacheInit /\ [][QueueNext]_vars

\* The requests in a list of ids.
Listed(list) == {list[i] : i \in 1..Len(list)}

\* C28: a request accepted into the offline queue is in the persisted
\* 'requestQueue' for as long as no execution of it has succeeded, whatever
\* failed attempts, removals of other requests and page reloads followed by
\* addToQueue or processQueue come in between.
C28_QueuedUntilSent ==
    \A r \in queue.accepted : queue.sent[r] = 0 => r \in Listed(queue.persisted)

\* C29: a request queued while offline is executed successfully at most
\* once, also when processQueue runs overlap.
C29_SentAtMostOnce ==
    \A r \in RequestIds : queue.sent[r] <= 1

\* ---- C30
\* The options FirebaseData.load is called with, and the calls that precede
\* a subscription: writes of one record, loads, and other subscriptions.
LoadOpts == {EmptyObj, [forceRefresh |-> TRUE]}
FreshIds == {"o1"}
FreshNext ==
    \/ Idle /\ \E name \in Colls, id \in FreshIds : DocSet(name, id, [quantity |-> 3], FALSE)
    \/ Idle /\ \E key \in Colls, id \in FreshIds :
                  FirebaseSave(key, FALSE, [id |-> id, quantity |-> 5], <<>>)
    \/ Idle /\ \E opts \in SubOpts : Subscribe(opts)
    \/ Idle /\ \E key \in Colls, options \in LoadOpts : FirebaseLoad(key, options)
    \/ RunMicrotask
    \/ Idle /\ Tick
FreshSpec == SubInit /\ [][FreshNext]_vars

\* The outcomes FirebaseData.subscribe(opts) may hand over for the stored list
\* src: the list sorted as requested, cut at the limit, ids merged in.
FreshOutcomes(opts, src) ==
    {SnapshotData(IF "limit" \in DOMAIN opts THEN ApplyLimit(sorted, opts.limit)
                  ELSE sorted) :
        sorted \in SortOutcomes(src, OrderByOf(opts), OrderDirOf(opts))}

\* C30: once the reactions a subscribe call queued have run, the last data
\* its callback received is the collection as stored at the time of the call,
\* sorted as requested; a list cached earlier never arrives after it.
C30_LastDeliveryIsFresh ==
    Idle => \A i \in 1..Len(subs) :
                ~subs[i].threw =>
                    subs[i].lastData \in FreshOutcomes(subs[i].opts, subs[i].src)

\* ---- C31
\* The items the session key may hold: login times around the 24-hour limit
\* at page load and one clock step before it.
LoginTimes ==
    {pageLoadTime - sessionDuration - 1, pageLoadTime - sessionDuration,
     pageLoadTime - sessionDuration + (defaultCacheTTL \div 2), pageLoadTime}
SessionItems ==
    {NoItem, EmptyItem, UnparseableItem, JsonItem(JsonNull), JsonItem(JsonNumber)}
        \cup {JsonItem(SessionObject(t)) : t \in {MissingTime, NullTime, MalformedTime}}
        \cup {JsonItem(SessionObject(IsoTime(t))) : t \in LoginTimes}
        \cup {JsonItem(SessionObject(NumberTime(t))) : t \in LoginTimes}
GateNext ==
    \/ \E item \in SessionItems : SessionStored(item)
    \/ IsAuthenticatedCall
    \/ \E onLoginPage \in BOOLEAN : AuthManagerInit(onLoginPage)
    \/ Tick
GateSpec == CacheInit /\ [][GateNext]_vars

\* A session record whose loginTime is a time at most 24 hours before `at`.
LiveSession(item, at) ==
    /\ item.kind = "json"
    /\ item.value.type = "object"
    /\ item.value.loginTime.form \in {"iso", "number"}
    /\ at - item.value.loginTime.time <= sessionDuration

\* A session record whose loginTime is a time more than 24 hours before `at`.
ExpiredSession(item, at) ==
    /\ item.kind = "json"
    /\ item.value.type = "object"
    /\ item.value.loginTime.form \in {"iso", "number"}
    /\ at - item.value.loginTime.time > sessionDuration

\* C31: isAuthenticated returns true only for a session record whose
\* loginTime lies at most 24 hours back; an absent, unparseable or malformed
\* item gives false, and an expired session is removed from storage.
C31_SessionValidity ==
    am.op.name \in {"isAuthenticated", "init"} =>
        /\ am.op.result => LiveSession(am.op.item, am.op.at)
        /\ ExpiredSession(am.op.item, am.op.at) => ~am.op.result /\ am.item = NoItem

\* ---- C32
DepNext ==
    \/ \E readyStateLoading \in BOOLEAN : ScriptLoads(readyStateLoading)
    \/ DomContentLoaded
    \/ InitRetryFires
    \/ PageInitializes
    \/ \E state \in SdkStates : SdkLoads(state)
    \/ \E i \in DOMAIN dep.calls, resolved \in BOOLEAN : PersistenceSettles(i, resolved)
DepSpec == CacheInit /\ [][DepNext]_vars

\* C32: however often initializeFirebase is invoked, its body runs to the
\* end (services configured, auth-state listener registered) at most once.
C32_InitializesOnce ==
    dep.completions <= 1 /\ dep.authListeners <= 1

\* ---- C33
\* C33: as long as no page calls DeploymentFirebase.initialize itself, the
\* script makes at most maxInitAttempts initialization attempts.
C33_AttemptsBounded ==
    dep.external = 0 => dep.initAttempts <= maxInitAttempts

\* ---- C34
\* One email, a right and a wrong password, the service available.
LockNext ==
    \/ \E initOk \in BOOLEAN : AuthenticateBegins("ann@shop.io", initOk)
    \/ \E i \in DOMAIN auth.inFlight, outcome \in {"ok", "auth/wrong-password"} :
          SignInSettles(i, outcome)
    \/ \E t \in auth.lockTimers : LockTimerFires(t)
    \/ LockWait
LockSpec == CacheInit /\ [][LockNext]_vars

\* C34: a call made less than LOCKOUT_DURATION after the failed attempt that
\* brought the email's count to MAX_LOGIN_ATTEMPTS does not reach the hosted
\* sign-in, and a call is refused for the rate limit only within that time
\* (or at its very end, before the timer due then has run).  A successful
\* sign-in ends the lockout (it resets the count).
C34_LockoutHolds ==
    auth.op.name = "authenticate" =>
        /\ (\E t \in auth.op.lockedSince : auth.op.at - t < LOCKOUT_DURATION)
                => auth.op.outcome # "signIn"
        /\ auth.op.outcome = "limited"
                => \E t \in auth.op.lockedSince : auth.op.at - t <= LOCKOUT_DURATION

\* ---- C35
\* C35: a refusal comes with a positive remainingTime, and once that time
\* has passed since the refusal, no attempt recorded meanwhile, the check is
\* allowed.
C35_RemainingTimeSuffices ==
    sec.op.name = "check" =>
        /\ ~sec.op.allowed => sec.op.remainingTime > 0
        /\ (\E u \in sec.op.promised : now >= u) => sec.op.allowed

\* ---- C36
\* The token responses: with and without a refresh_token, one lifetime.
ExpiresIn == {3600}
TokenResponses ==
    [access_token : {"a1", "a2"}, refresh_token : {NoToken, "r1"}, expires_in : ExpiresIn]
ZohoNext ==
    \/ \E ok \in BOOLEAN, tokens \in TokenResponses : RefreshAccessTokenCall(ok, tokens)
    \/ \E ok \in BOOLEAN, tokens \in TokenResponses : GetValidTokenCall(ok, tokens)
    \/ \E ok \in BOOLEAN, tokens \in TokenResponses : ExchangeCodeForToken(ok, tokens)
    \/ ZohoLogout
    \/ ZohoPageLoad
    \/ \E e \in ExpiresIn : ZohoWait(e)
ZohoSpec == CacheInit /\ [][ZohoNext]_vars

\* C36: after a successful refreshAccessToken, and until logout(), the client
\* holds a refresh token: isAuthenticated() is true whether or not the access
\* token has expired.
C36_RefreshKeepsRefreshToken ==
    zoho.refreshed => zoho.refreshToken # NoToken /\ ZohoIsAuthenticated(zoho)

\* ---- C37
BakTimes == 0..MaxBakTicks
BakNext ==
    \/ CreateBackupCall
    \/ \E t \in BakTimes : RestoreFromBackup(t)
    \/ \E items \in {<<>>, <<[id |-> "o1", quantity |-> 3]>>} : OrdersChange(items)
    \/ BakTick
BakSpec == Init /\ [][BakNext]_vars

\* C37: after a createBackup that did not throw, restoreFromBackup's safety
\* backup included, at most maxBackups backups are stored; they are the
\* latest of those stored before together with the new one, and the new one,
\* holding the orders as they were, is among them.
C37_LatestBackupsKept ==
    /\ Cardinality(bak.entries) <= maxBackups
    /\ (bak.op.name \in {"createBackup", "restore"} /\ ~bak.op.threw) =>
          LET new == [t |-> bak.op.at, data |-> bak.op.data]
              all == PutBackup(bak.op.before, new.t, new.data)
          IN  /\ new \in bak.entries
              /\ bak.entries \subseteq all
              /\ \A gone \in all \ bak.entries, kept \in bak.entries : gone.t < kept.t
              /\ all # bak.entries => Cardinality(bak.entries) = maxBackups

\* C37 witness: restoreFromBackup has taken its safety backup with
\* maxBackups backups already stored, and the oldest one was removed.
C37_Witness ==
    /\ bak.op.name = "restore" /\ ~bak.op.threw
    /\ Cardinality(bak.op.before) = maxBackups
    /\ \E gone \in bak.op.before : gone \notin bak.entries
    /\ [t |-> bak.op.at, data |-> bak.op.data] \in bak.entries

====
